---- MODULE Spec2Model ----
(***************************************************************************)
(* EasyRecruit backend (src/backend/app.py): the resume store, the batch   *)
(* upload handler with its keyword-augmentation step, and the hierarchical *)
(* weighted matching engine; and the resume parser                         *)
(* (src/backend/resume_parser.py), whose functions work on lines of text.  *)
(*                                                                         *)
(* Numbers that the program keeps as Python floats (weights, scores) are   *)
(* kept here as exact fractions <<numerator, denominator>> in lowest terms *)
(* with a positive denominator.                                            *)
(***************************************************************************)
EXTENDS Integers, Sequences, FiniteSets, TLC

VARIABLES
    gemini_api_key,   \* BOOLEAN: GEMINI_API_KEY is set (module constant read from the environment)
    resumes,          \* the Resume table, in insertion (primary key) order
    request,          \* the request being answered, [kind |-> "none"] when idle
    response,         \* the answer to that request, [kind |-> "none"] when idle
    frame,            \* the locals of the handler for the request being answered
    call              \* the call of a UniversalResumeParser method: its arguments,
                      \* its locals and, once it has returned, its result

vars == <<gemini_api_key, resumes, request, response, frame, call>>

----------------------------------------------------------------------------
(* Bounds of the model.                                                    *)

\* Rows the Resume table may hold.
MaxResumes == 2
\* Files of one upload request.
MaxFiles == 2
\* Largest top_k a request carries, besides MAX_TOP_K + 1.
MaxReqTopK == 2
\* Lines of one resume text given to the parser.
MaxLines == 4
\* Job entries of one call of calculate_total_experience.
MaxJobs == 2
\* Characters of a text given to clean_text alone.
MaxChars == 4

----------------------------------------------------------------------------
(* Exact fractions.                                                        *)

RECURSIVE GCD(_, _)
GCD(a, b) == IF b = 0 THEN a ELSE GCD(b, a % b)

Frac(n, d) == LET g == GCD(IF n < 0 THEN -n ELSE n, d)
              IN  IF n = 0 THEN <<0, 1>> ELSE <<n \div g, d \div g>>

FAdd(x, y) == Frac(x[1] * y[2] + y[1] * x[2], x[2] * y[2])
FMul(x, y) == Frac(x[1] * y[1], x[2] * y[2])
FDiv(x, y) == Frac(x[1] * y[2], x[2] * y[1])
FLeq(x, y) == x[1] * y[2] <= y[1] * x[2]
FZero == <<0, 1>>
FOne == <<1, 1>>

----------------------------------------------------------------------------
(* Strings.  str.lower() on the keyword vocabulary of the model.           *)

Lower(s) ==
    CASE s = "Python"  -> "python"
      [] s = "SQL"     -> "sql"
      [] s = "Docker"  -> "docker"
      [] s = "Agile"   -> "agile"
      [] s = "Finance" -> "finance"
      [] OTHER         -> s

SeqToSet(s) == {s[i] : i \in DOMAIN s}

\* d[key] = value on a dict.
SetItem(d, key, value) == [k \in DOMAIN d \cup {key} |-> IF k = key THEN value ELSE d[k]]

\* sep.join(strs)
RECURSIVE Join(_, _)
Join(strs, sep) ==
    IF strs = <<>> THEN ""
    ELSE IF Len(strs) = 1 THEN strs[1]
    ELSE strs[1] \o sep \o Join(Tail(strs), sep)

\* sub in s
In(sub, s) == \E i \in 1..(Len(s) - Len(sub) + 1) : SubSeq(s, i, i + Len(sub) - 1) = sub

\* s.startswith(prefix)
StartsWith(s, prefix) == Len(prefix) <= Len(s) /\ SubSeq(s, 1, Len(prefix)) = prefix

Users == {"u1", "u2"}
Hashes == {"h1", "h2"}

NoRequest == [kind |-> "none"]
NoResponse == [kind |-> "none"]
NoFrame == [kind |-> "none"]
NoCall == [fn |-> "none"]

----------------------------------------------------------------------------
(* The Resume table (class Resume) and store_resume_in_db.                 *)
(* A row keeps the columns the handlers below read: resume_id, user_id,    *)
(* content_hash, file_name, skills_json and combined_keywords_json.        *)

HasResume(rows, user, file_hash) ==
    \E i \in DOMAIN rows : rows[i].user_id = user /\ rows[i].content_hash = file_hash

\* Mutant: the new row takes the place of the rows stored before.
StoreInPlace(rows, parsed_resume, user, file_hash) ==
    <<[resume_id         |-> 1,
       user_id           |-> user,
       content_hash      |-> file_hash,
       file_name         |-> parsed_resume.file_name,
       skills            |-> parsed_resume.skills,
       combined_keywords |-> parsed_resume.combined_keywords]>>

\* Lines 319-352.
store_resume_in_db(rows, parsed_resume, user, file_hash) ==
    Append(rows, [resume_id         |-> Len(rows) + 1,
                  user_id           |-> user,
                  content_hash      |-> file_hash,
                  file_name         |-> parsed_resume.file_name,
                  skills            |-> parsed_resume.skills,
                  combined_keywords |-> parsed_resume.combined_keywords])

----------------------------------------------------------------------------
(* The keyword-augmentation step of upload_resumes.                        *)
(* The text of the service's answer is a sequence of tokens: an opening    *)
(* brace, a closing brace, a run of prose, or one "key": value member of   *)
(* a JSON object; a member's value is a list of strings or something else. *)

Tok(kind) == [t |-> kind, key |-> "", islist |-> FALSE, items |-> <<>>]
Member(k, l) == [t |-> "member", key |-> k, islist |-> TRUE, items |-> l]
Scalar(k) == [t |-> "member", key |-> k, islist |-> FALSE, items |-> <<>>]

expected_categories ==
    <<"hard_skills", "tools_and_platforms", "methodologies_and_frameworks",
      "domain_knowledge", "qualifications", "experience_indicators">>

\* re.search(r'\{.*\}', text, re.DOTALL): from the first opening brace to the
\* last closing brace after it; <<>> when there is no match.
ReSearchBraces(text) ==
    LET opens  == {i \in DOMAIN text : text[i].t = "lbrace"}
        closes == {i \in DOMAIN text : text[i].t = "rbrace"}
    IN  IF opens = {} THEN <<>>
        ELSE LET first == CHOOSE i \in opens : \A j \in opens : i <= j
                 after == {j \in closes : j > first}
             IN  IF after = {} THEN <<>>
                 ELSE LET last == CHOOSE j \in after : \A k \in after : k <= j
                      IN  SubSeq(text, first, last)

\* json.loads accepts the matched text when it is one object: members only
\* between its two braces.
JsonIsObject(toks) ==
    /\ Len(toks) >= 2
    /\ toks[1].t = "lbrace"
    /\ toks[Len(toks)].t = "rbrace"
    /\ \A i \in 2..(Len(toks) - 1) : toks[i].t = "member"

\* ai_keywords_data.get(category, []) with the isinstance(keywords, list) test:
\* the list under the key (the last member wins), nothing when the key is
\* absent or its value is no list.
CategoryKeywords(toks, category) ==
    LET at == {i \in 2..(Len(toks) - 1) : toks[i].key = category}
    IN  IF at = {} THEN <<>>
        ELSE LET i == CHOOSE j \in at : \A k \in at : k <= j
             IN  IF toks[i].islist THEN toks[i].items ELSE <<>>

\* Mutant: the lists of all keys of the object, in the order of the text.
RECURSIVE FlattenEveryKey(_, _)
FlattenEveryKey(toks, n) ==
    LET Lists(i) == IF i \in 2..(Len(toks) - 1) /\ toks[i].islist THEN toks[i].items ELSE <<>>
    IN  IF n = 0 THEN <<>> ELSE FlattenEveryKey(toks, n - 1) \o Lists(n + 1)

\* Lines 470-478.
RECURSIVE FlattenCategories(_, _)
FlattenCategories(toks, n) ==
    IF n = 0 THEN <<>>
    ELSE FlattenCategories(toks, n - 1) \o CategoryKeywords(toks, expected_categories[n])

\* Mutant: a failed search or parse leaves the keyword list empty.
GeminiKeywordsNoFallback(gemini, skills) ==
    IF gemini.raises THEN skills
    ELSE LET json_match == ReSearchBraces(gemini.text)
         IN  IF json_match = <<>> THEN <<>>
             ELSE IF ~JsonIsObject(json_match) THEN <<>>
             ELSE FlattenCategories(json_match, Len(expected_categories))

\* Lines 458-485: the call, the search, the parse and the flattening, with the
\* except branch falling back to the parsed skills.
GeminiKeywords(gemini, skills) ==
    IF gemini.raises THEN skills
    ELSE LET json_match == ReSearchBraces(gemini.text)
         IN  IF json_match = <<>> THEN skills
             ELSE IF ~JsonIsObject(json_match) THEN skills
             ELSE FlattenCategories(json_match, Len(expected_categories))

\* Lines 450-485.
AugmentKeywords(file) ==
    IF ~gemini_api_key THEN file.skills
    ELSE GeminiKeywords(file.gemini, file.skills)

----------------------------------------------------------------------------
(* The end of UniversalResumeParser.parse_resume: the Resume Record put    *)
(* together from what the extractors returned.  The record keeps the       *)
(* fields that are read after parsing.                                     *)

\* Lines 888-892.
SearchableContent(r) ==
    Join(<<r.summary, r.all_skills_text, r.all_experience_text, r.all_project_text,
           r.all_certifications_text>>, " ")

\* Lines 893-897.
SearchableOllamaContent(r) ==
    Join(<<r.summary, r.all_experience_text, r.all_project_text, r.all_skills_text>>, " ")

\* What the extractors found in a resume.
Extracted(summary, skills, experience, certifications) ==
    [summary |-> summary, skills |-> skills, all_experience_text |-> experience,
     all_project_text |-> "", certifications |-> certifications]

\* Lines 865-926; `x` holds the values the extractors returned (lines 855-864).
AssembleRecord(file_name, x) ==
    LET texts == [summary |-> x.summary,
                  all_skills_text |-> Join(x.skills, " "),
                  all_experience_text |-> x.all_experience_text,
                  all_project_text |-> x.all_project_text,
                  all_certifications_text |-> Join(x.certifications, " ")]
    IN  [file_name |-> file_name,
         summary |-> x.summary,
         skills |-> x.skills,
         certifications |-> x.certifications,
         all_skills_text |-> texts.all_skills_text,
         all_experience_text |-> texts.all_experience_text,
         all_project_text |-> texts.all_project_text,
         all_certifications_text |-> texts.all_certifications_text,
         searchable_content |-> SearchableContent(texts),
         searchable_ollama_content |-> SearchableOllamaContent(texts)]

----------------------------------------------------------------------------
(* upload_resumes: one pass of the loop over the files, and the loop.      *)

\* Lines 445-447 and 456: the record parse_resume returns for the file.
ParseFile(file) ==
    AssembleRecord(file.filename, Extracted(file.summary, file.skills, "", file.certifications))

\* Lines 498-502.
Failed(st, file, error) ==
    [st EXCEPT !.failed = Append(@, [filename |-> file.filename, error |-> error]),
               !.outcomes = Append(@, "failed")]

\* Lines 416-502.  `st` holds the table, the three lists of the handler, the
\* texts sent to the keyword service, what became of each file so far, and
\* whether the database session still accepts statements.
ProcessFile(st, file, user) ==
    IF file.filename = "" THEN [st EXCEPT !.outcomes = Append(@, "unnamed")]
    ELSE IF ~st.session_ok THEN Failed(st, file, "Processing failed: session")
    ELSE IF HasResume(st.rows, user, file.content_hash)
         THEN [st EXCEPT !.skipped = Append(@, file.filename),
                         !.outcomes = Append(@, "skipped")]
    ELSE IF ~file.extract_ok THEN Failed(st, file, "Processing failed: Extraction failed")
    ELSE LET parsed_resume == SetItem(ParseFile(file), "combined_keywords",
                                      AugmentKeywords(file))
             sent == IF gemini_api_key
                     THEN Append(st.prompts, [content_hash |-> file.content_hash,
                                              text |-> parsed_resume.searchable_content])
                     ELSE st.prompts
             rows == store_resume_in_db(st.rows, parsed_resume, user, file.content_hash)
         IN  IF file.store = "ok"
             THEN [st EXCEPT !.rows = rows,
                             !.prompts = sent,
                             !.processed = Append(@, [resume_id |-> Len(rows),
                                                      file_name |-> file.filename,
                                                      skills_count |->
                                                          Len(parsed_resume.combined_keywords)]),
                             !.outcomes = Append(@, "processed")]
             ELSE [Failed(st, file, "Processing failed: commit") EXCEPT
                      !.prompts = sent,
                      !.session_ok = (file.store = "raises")]

\* Mutant: the loop ends at the first file that fails.
RECURSIVE ProcessFilesUntilFailure(_, _, _)
ProcessFilesUntilFailure(st, files, user) ==
    IF files = <<>> \/ st.failed # <<>> THEN st
    ELSE ProcessFilesUntilFailure(ProcessFile(st, Head(files), user), Tail(files), user)

\* Line 415.
RECURSIVE ProcessFiles(_, _, _)
ProcessFiles(st, files, user) ==
    IF files = <<>> THEN st
    ELSE ProcessFiles(ProcessFile(st, Head(files), user), Tail(files), user)

\* has_files: the request has a 'files' part (line 404).
upload_resumes(user, has_files, files) ==
    /\ request.kind = "none"
    /\ Len(resumes) + Len(files) <= MaxResumes
    /\ request' = [kind |-> "upload", user |-> user, has_files |-> has_files,
                   files |-> files]
    /\ IF ~has_files
       THEN /\ response' = [kind |-> "error", status |-> 400]
            /\ resumes' = resumes
            /\ frame' = frame
       ELSE LET st == ProcessFiles([rows |-> resumes, processed |-> <<>>,
                                    failed |-> <<>>, skipped |-> <<>>,
                                    prompts |-> <<>>, outcomes |-> <<>>,
                                    session_ok |-> TRUE], files, user)
            IN  /\ resumes' = st.rows
                /\ response' = [kind |-> "upload", status |-> 200,
                                processed_resumes |-> st.processed,
                                total_processed |-> Len(st.processed),
                                total_failed |-> Len(st.failed),
                                failed_resumes |-> st.failed]
                /\ frame' = [kind |-> "upload", skipped_resumes |-> st.skipped,
                             prompts |-> st.prompts, outcomes |-> st.outcomes]
    /\ UNCHANGED <<gemini_api_key, call>>

\* The answer leaves the server: the request is over.
SendResponse ==
    /\ request.kind # "none"
    /\ request' = NoRequest
    /\ response' = NoResponse
    /\ frame' = NoFrame
    /\ UNCHANGED <<gemini_api_key, resumes, call>>

----------------------------------------------------------------------------
(* upload_resumes answered by several workers of the server at once.  The  *)
(* workers share the Resume table and nothing else: each has its own       *)
(* request, its own locals and its own database session.  A worker is      *)
(* interleaved with the others between its statements on the table: the    *)
(* query of line 429 and the commit of line 489 (store_resume_in_db, line   *)
(* 351).  Here request, response and frame hold one entry per worker.      *)

Workers == {"w1", "w2"}

\* Mutant: a table created without the constraint.
NoUniqueConstraint(rows, user_id, content_hash) == TRUE

\* Line 289, the constraint _user_content_uc as the database enforces it at
\* a commit: the new row is admitted when no stored row has its user and
\* its content hash.
UniqueConstraint(rows, user_id, content_hash) ==
    ~\E i \in DOMAIN rows : rows[i].user_id = user_id /\ rows[i].content_hash = content_hash

\* The files the workers have accepted and not yet gone through.
RECURSIVE FilesAhead(_, _)
FilesAhead(frames, workers) ==
    IF workers = {} THEN 0
    ELSE LET w == CHOOSE x \in workers : TRUE
         IN  (IF frames[w].kind = "upload" THEN Len(frames[w].files) - frames[w].i ELSE 0)
             + FilesAhead(frames, workers \ {w})

\* Lines 401-413: a worker takes a request and sets up its locals.
ReceiveUpload(w, user, files) ==
    /\ request[w].kind = "none"
    /\ Len(resumes) + FilesAhead(frame, Workers) + Len(files) <= MaxResumes
    /\ request' = [request EXCEPT ![w] = [kind |-> "upload", user |-> user, has_files |-> TRUE,
                                          files |-> files]]
    /\ frame' = [frame EXCEPT ![w] = [kind |-> "upload", files |-> files, i |-> 0,
                                      pc |-> "query", processed |-> <<>>, failed |-> <<>>,
                                      skipped |-> <<>>, outcomes |-> <<>>,
                                      session_ok |-> TRUE]]
    /\ response' = [response EXCEPT ![w] = NoResponse]
    /\ UNCHANGED <<gemini_api_key, resumes, call>>

\* The locals after the turn of the loop for file i + 1 is over.
NextFile(st) == [st EXCEPT !.i = @ + 1, !.pc = "query"]

\* Lines 415-447: from the head of the loop to the end of the extraction.
\* The query of line 429 reads the table as it is at this moment.
QueryExisting(w) ==
    /\ frame[w].kind = "upload"
    /\ frame[w].pc = "query"
    /\ frame[w].i < Len(frame[w].files)
    /\ LET st == frame[w]
           file == st.files[st.i + 1]
       IN  frame' = [frame EXCEPT ![w] =
               IF file.filename = "" THEN NextFile([st EXCEPT !.outcomes = Append(@, "unnamed")])
               ELSE IF ~st.session_ok
                    THEN NextFile(Failed(st, file, "Processing failed: session"))
               ELSE IF HasResume(resumes, request[w].user, file.content_hash)
                    THEN NextFile([st EXCEPT !.skipped = Append(@, file.filename),
                                             !.outcomes = Append(@, "skipped")])
               ELSE IF ~file.extract_ok
                    THEN NextFile(Failed(st, file, "Processing failed: Extraction failed"))
               ELSE [st EXCEPT !.pc = "store"]]
    /\ UNCHANGED <<gemini_api_key, resumes, request, response, call>>

\* Lines 449-502: parsing, augmentation and the commit of the new row.  The
\* commit is refused when the row breaks the constraint of line 289; the
\* except of line 498 lists the file as failed.  The session may or may not
\* accept statements after the refusal.
StoreResume(w) ==
    /\ frame[w].kind = "upload"
    /\ frame[w].pc = "store"
    /\ LET st == frame[w]
           file == st.files[st.i + 1]
           user == request[w].user
           parsed_resume == SetItem(ParseFile(file), "combined_keywords", AugmentKeywords(file))
           rows == store_resume_in_db(resumes, parsed_resume, user, file.content_hash)
       IN  IF UniqueConstraint(resumes, user, file.content_hash)
           THEN /\ resumes' = rows
                /\ frame' = [frame EXCEPT ![w] =
                       NextFile([st EXCEPT !.processed =
                                               Append(@, [resume_id |-> Len(rows),
                                                          file_name |-> file.filename,
                                                          skills_count |->
                                                              Len(parsed_resume.combined_keywords)]),
                                           !.outcomes = Append(@, "processed")])]
           ELSE /\ resumes' = resumes
                /\ \E usable \in BOOLEAN :
                       frame' = [frame EXCEPT ![w] =
                           NextFile([Failed(st, file, "Processing failed: IntegrityError")
                                        EXCEPT !.session_ok = usable])]
    /\ UNCHANGED <<gemini_api_key, request, response, call>>

\* Lines 504-506: the answer of the worker; its request is over.
RespondUpload(w) ==
    /\ frame[w].kind = "upload"
    /\ frame[w].pc = "query"
    /\ frame[w].i = Len(frame[w].files)
    /\ response' = [response EXCEPT ![w] =
                       [kind |-> "upload", status |-> 200,
                        processed_resumes |-> frame[w].processed,
                        total_processed |-> Len(frame[w].processed),
                        total_failed |-> Len(frame[w].failed),
                        failed_resumes |-> frame[w].failed]]
    /\ request' = [request EXCEPT ![w] = NoRequest]
    /\ frame' = [frame EXCEPT ![w] = NoFrame]
    /\ UNCHANGED <<gemini_api_key, resumes, call>>

----------------------------------------------------------------------------
(* The weighting configuration (lines 205-227).                            *)

SCORE_COMPOSITION_WEIGHTS == [required |-> Frac(8, 10), preferred |-> Frac(2, 10)]

REQUIRED_CATEGORY_WEIGHTS ==
    [hard_skills |-> Frac(2, 10),
     tools_and_platforms |-> Frac(6, 10),
     methodologies_and_frameworks |-> Frac(2, 10)]

PREFERRED_CATEGORY_WEIGHTS ==
    [hard_skills |-> Frac(1, 10),
     tools_and_platforms |-> Frac(8, 10),
     methodologies_and_frameworks |-> Frac(1, 10)]

SCORING_CATEGORIES == <<"hard_skills", "tools_and_platforms", "methodologies_and_frameworks">>

ScoringSet == SeqToSet(SCORING_CATEGORIES)
Importances == {"required", "preferred"}

MAX_TOP_K == 100

----------------------------------------------------------------------------
(* match_resumes.  A dict is a function whose domain is its key set; the   *)
(* empty dict is <<>>.                                                     *)

TierKey(importance) ==
    IF importance = "required" THEN "required_keywords" ELSE "preferred_keywords"

\* importance.replace('_keywords', '') on the top-level keys of the model.
ImportanceKey(key) ==
    CASE key = "required_keywords"  -> "required"
      [] key = "preferred_keywords" -> "preferred"
      [] OTHER                      -> key

\* The order in which the top-level keys of a request are iterated (a dict
\* keeps the order of the JSON text).
KeyOrder == <<"required_keywords", "preferred_keywords", "required">>

\* jd_keywords_categorized.get(f'{importance}_keywords', {})
TierOf(jd, importance) ==
    IF TierKey(importance) \in DOMAIN jd THEN jd[TierKey(importance)] ELSE <<>>

\* Line 734: .get(category, ) yields None for a missing category and len(None)
\* raises TypeError.
CountRaises(jd) ==
    \E importance \in Importances : \E category \in ScoringSet :
        category \notin DOMAIN TierOf(jd, importance)

\* Lines 727-735.
MaxCounts(jd) ==
    [importance \in Importances |->
        [category \in ScoringSet |-> Len(TierOf(jd, importance)[category])]]

HasKeywords(counts) == \E category \in ScoringSet : counts[category] > 0

\* Mutant: the table weights are never adjusted.
CompositionWeightsFixed(has_required, has_preferred) == SCORE_COMPOSITION_WEIGHTS

\* Lines 739-748.
CompositionWeights(has_required, has_preferred) ==
    IF has_required /\ ~has_preferred THEN [required |-> FOne, preferred |-> FZero]
    ELSE IF ~has_required /\ has_preferred THEN [required |-> FZero, preferred |-> FOne]
    ELSE SCORE_COMPOSITION_WEIGHTS

RECURSIVE SumWeights(_, _, _)
SumWeights(w, cats, n) ==
    IF n = 0 THEN FZero
    ELSE FAdd(SumWeights(w, cats, n - 1),
              IF SCORING_CATEGORIES[n] \in cats THEN w[SCORING_CATEGORIES[n]] ELSE FZero)

\* Mutant: the weights of the categories present are not divided by their sum.
CategoryWeightsUnnormalized(table, counts) ==
    [category \in {c \in DOMAIN table : counts[c] > 0} |-> table[category]]

\* Lines 753-762 and 765-774: keep the categories that have job keywords and
\* divide their weights by the weight that is present.
CategoryWeights(table, counts) ==
    LET present == {category \in DOMAIN table : counts[category] > 0}
        weight_present == SumWeights(table, present, Len(SCORING_CATEGORIES))
    IN  [category \in present |->
            IF weight_present[1] > 0 THEN FDiv(table[category], weight_present)
            ELSE table[category]]

\* Mutant: the list of identifiers is not applied.
ResumesToScoreAll(rows, user, ids) == SelectSeq(rows, LAMBDA r : r.user_id = user)

\* Mutant: the listed rows are taken whoever owns them.
ResumesToScoreAnyOwner(rows, user, ids) ==
    IF ids.kind = "list" /\ ids.val # <<>>
    THEN SelectSeq(rows, LAMBDA r : r.resume_id \in SeqToSet(ids.val))
    ELSE SelectSeq(rows, LAMBDA r : r.user_id = user)

\* Lines 778-782.
ResumesToScore(rows, user, ids) ==
    LET mine == SelectSeq(rows, LAMBDA r : r.user_id = user)
    IN  IF ids.kind = "list" /\ ids.val # <<>>
        THEN SelectSeq(mine, LAMBDA r : r.resume_id \in SeqToSet(ids.val))
        ELSE mine

\* Line 789.
ResumeKeywords(resume) == {Lower(k) : k \in SeqToSet(resume.combined_keywords)}

IsMatch(kw, resume_keywords) == Lower(kw) \in resume_keywords

MatchCount(keywords, resume_keywords) ==
    Cardinality({i \in DOMAIN keywords : IsMatch(keywords[i], resume_keywords)})

\* Mutant: matches of the domain_knowledge category count as well.
RECURSIVE CurrentMatchesAnyCategory(_, _, _, _, _)
CurrentMatchesAnyCategory(jd, resume_keywords, importance, category, n) ==
    IF n = 0 THEN 0
    ELSE CurrentMatchesAnyCategory(jd, resume_keywords, importance, category, n - 1) +
         (IF /\ KeyOrder[n] \in DOMAIN jd
             /\ ImportanceKey(KeyOrder[n]) = importance
             /\ category \in DOMAIN jd[KeyOrder[n]]
          THEN MatchCount(jd[KeyOrder[n]][category], resume_keywords) +
               (IF "domain_knowledge" \in DOMAIN jd[KeyOrder[n]]
                THEN MatchCount(jd[KeyOrder[n]]["domain_knowledge"], resume_keywords)
                ELSE 0)
          ELSE 0)

\* Lines 802-815: the counter of one importance and category, fed by every
\* top-level key whose name reduces to that importance.
RECURSIVE CurrentMatches(_, _, _, _, _)
CurrentMatches(jd, resume_keywords, importance, category, n) ==
    IF n = 0 THEN 0
    ELSE CurrentMatches(jd, resume_keywords, importance, category, n - 1) +
         (IF /\ KeyOrder[n] \in DOMAIN jd
             /\ ImportanceKey(KeyOrder[n]) = importance
             /\ category \in DOMAIN jd[KeyOrder[n]]
          THEN MatchCount(jd[KeyOrder[n]][category], resume_keywords)
          ELSE 0)

\* Mutant: only the first scoring category is recognised.
IsScoringCatFirstOnly(category) == category = SCORING_CATEGORIES[1]

\* Line 805.
IsScoringCat(category) == category \in ScoringSet

\* Lines 806-817: the matched (want = TRUE) or missing (want = FALSE) list of
\* one category, filled tier after tier.
RECURSIVE ReportList(_, _, _, _, _)
ReportList(jd, resume_keywords, category, want, n) ==
    IF n = 0 THEN <<>>
    ELSE ReportList(jd, resume_keywords, category, want, n - 1) \o
         (IF KeyOrder[n] \in DOMAIN jd /\ category \in DOMAIN jd[KeyOrder[n]]
          THEN SelectSeq(jd[KeyOrder[n]][category],
                         LAMBDA kw : IsMatch(kw, resume_keywords) = want)
          ELSE <<>>)

ReportDetails(jd, resume_keywords) ==
    LET named == UNION {DOMAIN jd[k] : k \in DOMAIN jd}
        entry(category) ==
            [matched |-> ReportList(jd, resume_keywords, category, TRUE, Len(KeyOrder)),
             missing |-> ReportList(jd, resume_keywords, category, FALSE, Len(KeyOrder))]
    IN  [scoring_keywords |->
            [category \in {c \in named : IsScoringCat(c)} |-> entry(category)],
         additional_keywords |->
            [category \in {c \in named : ~IsScoringCat(c)} |-> entry(category)]]

\* Lines 821-827 and 830-836.
RECURSIVE ScoreComponent(_, _, _, _)
ScoreComponent(weights, matches, counts, n) ==
    IF n = 0 THEN FZero
    ELSE FAdd(ScoreComponent(weights, matches, counts, n - 1),
              LET category == SCORING_CATEGORIES[n]
              IN  IF category \in DOMAIN weights
                  THEN FMul(IF counts[category] > 0
                            THEN Frac(matches[category], counts[category])
                            ELSE FZero,
                            weights[category])
                  ELSE FZero)

\* Lines 839-840.
FinalScore(required_score_component, preferred_score_component, composition) ==
    FAdd(FMul(required_score_component, composition.required),
         FMul(preferred_score_component, composition.preferred))

\* Lines 787-850: one resume; `w` holds the locals set before the loop.
ScoreResume(jd, resume, w) ==
    LET resume_keywords == ResumeKeywords(resume)
        current_matches ==
            [importance \in Importances |->
                [category \in ScoringSet |->
                    CurrentMatches(jd, resume_keywords, importance, category, Len(KeyOrder))]]
        required_score_component ==
            IF w.has_required
            THEN ScoreComponent(w.final_required_weights, current_matches.required,
                                w.max_counts.required, Len(SCORING_CATEGORIES))
            ELSE FZero
        preferred_score_component ==
            IF w.has_preferred
            THEN ScoreComponent(w.final_preferred_weights, current_matches.preferred,
                                w.max_counts.preferred, Len(SCORING_CATEGORIES))
            ELSE FZero
    IN  [resume_id |-> resume.resume_id,
         file_name |-> resume.file_name,
         score |-> FinalScore(required_score_component, preferred_score_component,
                              w.final_composition_weights),
         required_score_component |-> required_score_component,
         preferred_score_component |-> preferred_score_component,
         report_details |-> ReportDetails(jd, resume_keywords)]

\* Lines 845-850: the entry of one resume in the answer.
ResultEntry(scored) ==
    [resume_id |-> scored.resume_id,
     file_name |-> scored.file_name,
     score |-> scored.score,
     report_details |-> scored.report_details]

\* sorted(scored_resumes, key=score, reverse=True): stable, highest first.
RECURSIVE InsertByScore(_, _)
InsertByScore(sorted, x) ==
    IF sorted = <<>> THEN <<x>>
    ELSE IF FLeq(x.score, sorted[Len(sorted)].score) THEN Append(sorted, x)
    ELSE Append(InsertByScore(SubSeq(sorted, 1, Len(sorted) - 1), x), sorted[Len(sorted)])

RECURSIVE SortByScore(_, _)
SortByScore(s, n) ==
    IF n = 0 THEN <<>> ELSE InsertByScore(SortByScore(s, n - 1), s[n])

\* s[:k] of Python: a negative k counts from the end.
SliceTo(s, k) ==
    IF k >= 0 THEN SubSeq(s, 1, IF k < Len(s) THEN k ELSE Len(s))
    ELSE SubSeq(s, 1, IF Len(s) + k > 0 THEN Len(s) + k ELSE 0)

\* Line 720: min(int(data.get('top_k', 10)), 100).
TopK(top_k) ==
    LET requested == IF top_k.kind = "absent" THEN 10 ELSE top_k.val
    IN  IF requested < MAX_TOP_K THEN requested ELSE MAX_TOP_K

ErrorResponse(code) == [kind |-> "error", status |-> code]

\* The answer and the locals of match_resumes for one request.
MatchOutcome(rows, user, data) ==
    LET jd == data.keywords
    IN  IF data.top_k.kind = "text" THEN [response |-> ErrorResponse(500), frame |-> NoFrame]
        ELSE IF jd = <<>> THEN [response |-> ErrorResponse(400), frame |-> NoFrame]
        ELSE IF CountRaises(jd) THEN [response |-> ErrorResponse(500), frame |-> NoFrame]
        ELSE
        LET counts == MaxCounts(jd)
            has_required == HasKeywords(counts.required)
            has_preferred == HasKeywords(counts.preferred)
        IN  IF ~has_required /\ ~has_preferred
            THEN [response |-> [kind |-> "empty", status |-> 200, results |-> <<>>,
                                message |-> "No scorable keywords found in the job description."],
                  frame |-> NoFrame]
            ELSE
            LET w == [max_counts |-> counts,
                      has_required |-> has_required,
                      has_preferred |-> has_preferred,
                      final_composition_weights |->
                          CompositionWeights(has_required, has_preferred),
                      final_required_weights |->
                          CategoryWeights(REQUIRED_CATEGORY_WEIGHTS, counts.required),
                      final_preferred_weights |->
                          CategoryWeights(PREFERRED_CATEGORY_WEIGHTS, counts.preferred)]
                resumes_to_score == ResumesToScore(rows, user, data.resume_ids)
                scored == [i \in DOMAIN resumes_to_score |->
                              ScoreResume(jd, resumes_to_score[i], w)]
                scored_resumes == [i \in DOMAIN scored |-> ResultEntry(scored[i])]
                sorted_resumes == SortByScore(scored_resumes, Len(scored_resumes))
            IN  [response |-> [kind |-> "results", status |-> 200,
                               results |-> SliceTo(sorted_resumes, TopK(data.top_k)),
                               total_resumes_scored |-> Len(resumes_to_score)],
                 frame |-> [kind |-> "match",
                            max_counts |-> w.max_counts,
                            has_required |-> w.has_required,
                            has_preferred |-> w.has_preferred,
                            final_composition_weights |-> w.final_composition_weights,
                            final_required_weights |-> w.final_required_weights,
                            final_preferred_weights |-> w.final_preferred_weights,
                            scored |->
                                [i \in DOMAIN scored |->
                                    [resume_id |-> scored[i].resume_id,
                                     required_score_component |->
                                         scored[i].required_score_component,
                                     preferred_score_component |->
                                         scored[i].preferred_score_component,
                                     score |-> scored[i].score]]]]

match_resumes(user, data) ==
    /\ request.kind = "none"
    /\ LET out == MatchOutcome(resumes, user, data)
       IN  /\ response' = out.response
           /\ frame' = out.frame
    /\ request' = [kind |-> "match", user |-> user, data |-> data]
    /\ UNCHANGED <<gemini_api_key, resumes, call>>

----------------------------------------------------------------------------
(* The operations that read the Resume table.                              *)

\* Resume.query.get_or_404(resume_id): the row, or <<>> where the query aborts.
GetOr404(rows, resume_id) ==
    IF resume_id \in DOMAIN rows THEN <<rows[resume_id]>> ELSE <<>>

Reversed(s) == [i \in DOMAIN s |-> s[Len(s) + 1 - i]]

\* Lines 860-872.  The rows come latest upload first; uploads are taken to
\* have distinct upload dates.
get_user_resumes(user) ==
    /\ request.kind = "none"
    /\ request' = [kind |-> "list", user |-> user]
    /\ LET mine == Reversed(SelectSeq(resumes, LAMBDA r : r.user_id = user))
       IN  response' = [kind |-> "list", status |-> 200,
                        resumes |-> [i \in DOMAIN mine |->
                                        [resume_id |-> mine[i].resume_id,
                                         file_name |-> mine[i].file_name]]]
    /\ UNCHANGED <<gemini_api_key, resumes, frame, call>>

\* Lines 875-885.
download_resume(user, resume_id) ==
    /\ request.kind = "none"
    /\ request' = [kind |-> "download", user |-> user, resume_id |-> resume_id]
    /\ LET found == GetOr404(resumes, resume_id)
       IN  response' =
               IF found = <<>> THEN ErrorResponse(404)
               ELSE IF found[1].user_id # user THEN ErrorResponse(403)
               ELSE [kind |-> "file", status |-> 200, resume_id |-> found[1].resume_id,
                     file_name |-> found[1].file_name]
    /\ UNCHANGED <<gemini_api_key, resumes, frame, call>>

\* Lines 888-913.  The abort of get_or_404 is raised inside the try and
\* answered by its except branch.
get_resume_details(user, resume_id) ==
    /\ request.kind = "none"
    /\ request' = [kind |-> "details", user |-> user, resume_id |-> resume_id]
    /\ LET found == GetOr404(resumes, resume_id)
       IN  response' =
               IF found = <<>> THEN ErrorResponse(500)
               ELSE IF found[1].user_id # user THEN ErrorResponse(403)
               ELSE [kind |-> "details", status |-> 200, resume |-> found[1]]
    /\ UNCHANGED <<gemini_api_key, resumes, frame, call>>

\* Lines 915-942: the count of the caller's resumes (the average of the
\* experience strings is left out).
get_stats(user) ==
    /\ request.kind = "none"
    /\ request' = [kind |-> "stats", user |-> user]
    /\ response' = [kind |-> "stats", status |-> 200,
                    total_resumes_loaded |->
                        Len(SelectSeq(resumes, LAMBDA r : r.user_id = user))]
    /\ UNCHANGED <<gemini_api_key, resumes, frame, call>>

----------------------------------------------------------------------------
(* The inputs of the model.                                                *)

\* The answers of the keyword service.
Raises == [raises |-> TRUE, text |-> <<>>]
Answer(text) == [raises |-> FALSE, text |-> text]

CleanAnswer ==
    Answer(<<Tok("lbrace"), Member("hard_skills", <<"Python">>),
             Member("tools_and_platforms", <<"Docker">>),
             Member("methodologies_and_frameworks", <<"Agile">>),
             Member("domain_knowledge", <<"Finance">>), Tok("rbrace")>>)
WrappedAnswer ==
    Answer(<<Tok("prose"), Tok("lbrace"), Member("domain_knowledge", <<"Finance">>),
             Member("methodologies_and_frameworks", <<"Agile">>),
             Member("hard_skills", <<"SQL">>), Tok("rbrace"), Tok("prose")>>)
ProseAnswer == Answer(<<Tok("prose")>>)
BrokenAnswer == Answer(<<Tok("lbrace"), Member("hard_skills", <<"SQL">>), Tok("prose"),
                         Tok("rbrace")>>)
OddAnswer ==
    Answer(<<Tok("lbrace"), Scalar("hard_skills"), Member("languages", <<"Python">>),
             Member("qualifications", <<"Docker">>), Tok("rbrace")>>)
TwoObjectsAnswer ==
    Answer(<<Tok("lbrace"), Member("hard_skills", <<"SQL">>), Tok("rbrace"), Tok("prose"),
             Tok("lbrace"), Member("hard_skills", <<"Docker">>), Tok("rbrace")>>)

GeminiAnswers == {Raises, CleanAnswer, WrappedAnswer, ProseAnswer, BrokenAnswer, OddAnswer,
                  TwoObjectsAnswer}
PlainAnswers == {Raises, CleanAnswer}

SkillLists == {<<>>, <<"python">>}

\* The name under which the content with hash h is uploaded.
FileName(h) == IF h = "h1" THEN "cv1.pdf" ELSE "cv2.pdf"

\* The certifications a resume may list.
CertificationLists == {<<>>, <<"PMP">>}

\* What the commit of store_resume_in_db may do: succeed, raise, or raise and
\* leave the session refusing statements until it is rolled back.
StoreOutcomes == {"ok", "raises", "raises_inactive"}

File(name, h, extract_ok, parsed, gemini, store) ==
    [filename |-> name, content_hash |-> h, extract_ok |-> extract_ok,
     summary |-> parsed.summary, skills |-> parsed.skills,
     certifications |-> parsed.certifications, gemini |-> gemini, store |-> store]

NothingParsed == [summary |-> "", skills |-> <<>>, certifications |-> <<>>]

UnnamedFile == File("", "h1", TRUE, NothingParsed, Raises, "ok")
UnreadableFiles == {File(FileName(h), h, FALSE, NothingParsed, Raises, "ok") : h \in Hashes}
ReadableFiles(skill_lists, answers) ==
    {File(FileName(h), h, TRUE,
          [summary |-> "Backend engineer", skills |-> sk, certifications |-> c], g, "ok") :
        h \in Hashes, sk \in skill_lists, c \in CertificationLists, g \in answers}

Files == {UnnamedFile} \cup UnreadableFiles \cup ReadableFiles(SkillLists, GeminiAnswers)
PlainFiles ==
    {f \in ReadableFiles({<<"python">>}, PlainAnswers) : f.certifications = <<>>}

\* Files whose record may fail to be stored.
FailingFiles ==
    {UnnamedFile} \cup UnreadableFiles \cup
    {[f EXCEPT !.store = o] : f \in PlainFiles, o \in StoreOutcomes}

\* The batches of at most MaxFiles files that the table has room for.
Batches(files) ==
    LET room == MaxResumes - Len(resumes)
    IN  UNION {[1..n -> files] : n \in 1..(IF room < MaxFiles THEN room ELSE MaxFiles)}

\* The job keywords of a category, when the request populates it.
JobList(category) ==
    CASE category = "hard_skills"                  -> <<"Python", "SQL">>
      [] category = "tools_and_platforms"          -> <<"Docker">>
      [] category = "methodologies_and_frameworks" -> <<"Agile">>
      [] OTHER                                     -> <<"Finance">>

\* The mappings of one tier over the categories `named`, each populated or empty.
TierMaps(named) ==
    {[category \in named |-> IF category \in filled THEN JobList(category) ELSE <<>>] :
        filled \in SUBSET named}

Absent == [given |-> FALSE, map |-> <<>>]
Given(map) == [given |-> TRUE, map |-> map]

RequiredTiers ==
    {Absent} \cup
    {Given(m) : m \in TierMaps(ScoringSet) \cup TierMaps(ScoringSet \cup {"domain_knowledge"})
                      \cup TierMaps({"hard_skills"}) \cup TierMaps({"domain_knowledge"})}
PreferredTiers ==
    {Absent} \cup {Given(m) : m \in TierMaps(ScoringSet) \cup TierMaps({"domain_knowledge"})}
ExtraTiers == {Absent, Given([category \in {"hard_skills"} |-> <<"Python", "python">>])}

\* The 'keywords' object of a request.
Keywords(required, preferred, extra) ==
    LET given == {k \in {"required_keywords", "preferred_keywords", "required"} :
                     CASE k = "required_keywords"  -> required.given
                       [] k = "preferred_keywords" -> preferred.given
                       [] OTHER                    -> extra.given}
    IN  [k \in given |-> CASE k = "required_keywords"  -> required.map
                           [] k = "preferred_keywords" -> preferred.map
                           [] OTHER                    -> extra.map]

NoTopK == [kind |-> "absent", val |-> 0]
TopKs == {NoTopK, [kind |-> "text", val |-> 0]} \cup
         {[kind |-> "int", val |-> k] : k \in (-1..MaxReqTopK) \cup {MAX_TOP_K + 1}}

RECURSIVE Ascending(_)
Ascending(ids) ==
    IF ids = {} THEN <<>>
    ELSE LET least == CHOOSE i \in ids : \A j \in ids : i <= j
         IN  <<least>> \o Ascending(ids \ {least})

NoIds == [kind |-> "absent", val |-> <<>>]
ResumeIds == {NoIds, [kind |-> "scalar", val |-> <<>>]} \cup
             {[kind |-> "list", val |-> Ascending(ids)] : ids \in SUBSET (1..MaxResumes)}

AllScoring == [category \in ScoringSet |-> JobList(category)]

\* Requests that vary the keywords, requests that vary the result limit and the
\* resume selection, and requests with a top-level key beside the two tiers.
KeywordRequests ==
    {[keywords |-> Keywords(r, p, Absent), top_k |-> NoTopK, resume_ids |-> NoIds] :
        r \in RequiredTiers, p \in PreferredTiers}
RankingRequests ==
    {[keywords |-> Keywords(Given(AllScoring), p, Absent), top_k |-> k, resume_ids |-> ids] :
        p \in {Given([category \in ScoringSet |-> <<>>]), Given(AllScoring)},
        k \in TopKs, ids \in ResumeIds}
ExtraKeyRequests ==
    {[keywords |-> Keywords(r, Given([category \in ScoringSet |-> <<>>]), e),
      top_k |-> NoTopK, resume_ids |-> NoIds] :
        r \in {Absent} \cup {Given(m) : m \in TierMaps(ScoringSet)}, e \in ExtraTiers}
MatchRequests == KeywordRequests \cup RankingRequests \cup ExtraKeyRequests

----------------------------------------------------------------------------
(* UniversalResumeParser.extract_keywords_ollama and augment_keywords.     *)
(* The answer of the chat call is a text of tokens like the answer of the  *)
(* keyword service of upload_resumes; a response without a message has the *)
(* empty text.                                                             *)

\* The keys of the parsed object, each once, in the order of the text: what
\* list(data) gives for a dict.
RECURSIVE DictKeys(_, _)
DictKeys(toks, n) ==
    IF n <= 1 THEN <<>>
    ELSE LET before == DictKeys(toks, n - 1)
         IN  IF toks[n].t = "member" /\ toks[n].key \notin SeqToSet(before)
             THEN Append(before, toks[n].key)
             ELSE before

\* Lines 786-811, as list(...) of line 819 sees the value returned: [] and {}
\* both give the empty list, a parsed object gives its keys.
ExtractKeywordsOllama(ollama) ==
    IF ollama.raises THEN <<>>
    ELSE LET object_match == ReSearchBraces(ollama.text)
         IN  IF object_match = <<>> THEN <<>>
             ELSE IF ~JsonIsObject(object_match) THEN <<>>
             ELSE DictKeys(object_match, Len(object_match))

\* Lines 813-820.  `sent` is the text handed to extract_keywords_ollama.
augment_keywords ==
    /\ call.fn = "augment_keywords"
    /\ call.pc = "called"
    /\ LET extracted_keywords == ExtractKeywordsOllama(call.ollama)
       IN  call' = [call EXCEPT
                      !.pc = "returned",
                      !.sent = call.parsed_resume.searchable_ollama_content,
                      !.raised = FALSE,
                      !.result = SetItem(call.parsed_resume, "combined_keywords",
                                         extracted_keywords)]
    /\ UNCHANGED <<gemini_api_key, resumes, request, response, frame>>

----------------------------------------------------------------------------
(* Text.  A text is a string of ASCII characters; three characters stand   *)
(* for characters outside ASCII: "~" for the bullet U+2022, "^" for the    *)
(* en dash U+2013 and "$" for any other one (say U+00E9).                  *)

Whitespace == {" ", "\t", "\n"}
NonAscii == {"~", "^", "$"}
UpperCase == <<"A", "B", "C", "D", "E", "F", "G", "H", "I", "J", "K", "L", "M",
               "N", "O", "P", "Q", "R", "S", "T", "U", "V", "W", "X", "Y", "Z">>
LowerCase == <<"a", "b", "c", "d", "e", "f", "g", "h", "i", "j", "k", "l", "m",
               "n", "o", "p", "q", "r", "s", "t", "u", "v", "w", "x", "y", "z">>
UpperLetters == SeqToSet(UpperCase)
LowerLetters == SeqToSet(LowerCase)
Letters == UpperLetters \cup LowerLetters
Digits == {"0", "1", "2", "3", "4", "5", "6", "7", "8", "9"}

First(s) == SubSeq(s, 1, 1)
Last(s) == SubSeq(s, Len(s), Len(s))

CharLower(c) ==
    IF c \in UpperLetters
    THEN LowerCase[CHOOSE i \in DOMAIN UpperCase : UpperCase[i] = c]
    ELSE c

\* The character at position p of s, "" outside s.
At(s, p) == IF p \in 1..Len(s) THEN SubSeq(s, p, p) ELSE ""

\* s[a-1:b] of Python: the characters of s at the positions a to b that s has.
Slice(s, a, b) ==
    LET lo == IF a < 1 THEN 1 ELSE a
        hi == IF b > Len(s) THEN Len(s) ELSE b
    IN  IF lo > hi THEN "" ELSE SubSeq(s, lo, hi)

\* The text of s from position p on.
From(s, p) == Slice(s, p, Len(s))

\* The least and the greatest number of a set of numbers that is not empty.
Least(S) == CHOOSE x \in S : \A y \in S : x <= y
Greatest(S) == CHOOSE x \in S : \A y \in S : y <= x

\* The k-th number of a set of numbers in ascending order, `past` when the
\* set has fewer than k numbers.
Nth(S, k, past) == IF k > Cardinality(S) THEN past ELSE CHOOSE x \in S : Cardinality({y \in S : y < x}) = k - 1

\* The strings at the positions lo to hi of a list, one after the other.
RECURSIVE Concat(_, _, _)
Concat(strs, lo, hi) ==
    IF lo > hi THEN ""
    ELSE IF lo = hi THEN strs[lo]
    ELSE Concat(strs, lo, (lo + hi) \div 2) \o Concat(strs, (lo + hi) \div 2 + 1, hi)

\* s.lower()
StrLower(s) == Concat([p \in 1..Len(s) |-> CharLower(At(s, p))], 1, Len(s))

\* s.lstrip(chars) and s.rstrip(chars); s.strip() on whitespace.
LStripChars(s, chars) ==
    LET kept == {p \in 1..Len(s) : At(s, p) \notin chars}
    IN  IF kept = {} THEN "" ELSE From(s, Least(kept))

RStripChars(s, chars) ==
    LET kept == {p \in 1..Len(s) : At(s, p) \notin chars}
    IN  IF kept = {} THEN "" ELSE Slice(s, 1, Greatest(kept))

Strip(s) == RStripChars(LStripChars(s, Whitespace), Whitespace)

\* re.sub(r'[chars]+', ' ', s): every run of characters of the set becomes
\* one space, which stands where the run starts.
SubRuns(s, chars) ==
    Concat([p \in 1..Len(s) |->
               IF At(s, p) \notin chars THEN At(s, p)
               ELSE IF At(s, p - 1) \in chars THEN ""
               ELSE " "], 1, Len(s))

\* len(s.split()): the number of runs of characters that are not whitespace.
WordCount(s) ==
    Cardinality({p \in 1..Len(s) : At(s, p) \notin Whitespace /\ (p = 1 \/ At(s, p - 1) \in Whitespace)})

\* The number of characters of s that are not in the set.
CountOutside(s, chars) == Cardinality({p \in 1..Len(s) : At(s, p) \notin chars})

----------------------------------------------------------------------------
(* UniversalResumeParser: clean_text, _is_section_header and               *)
(* find_section_boundaries.                                                *)

\* Lines 85-90: the text before its runs of whitespace are made one space
\* again and its ends are stripped.
CleanTextToLine90(text) ==
    IF text = "" THEN ""
    ELSE LET spaced == SubRuns(Strip(text), Whitespace)
             unbulleted == IF spaced # "" /\ First(spaced) = "~"
                           THEN LStripChars(Tail(spaced), Whitespace)
                           ELSE spaced
         IN  SubRuns(unbulleted, NonAscii)

\* Lines 85-92.
clean_text(text) ==
    IF text = "" THEN ""
    ELSE LET spaced == SubRuns(Strip(text), Whitespace)
             unbulleted == IF spaced # "" /\ First(spaced) = "~"
                           THEN LStripChars(Tail(spaced), Whitespace)
                           ELSE spaced
         IN  Strip(SubRuns(SubRuns(unbulleted, NonAscii), Whitespace))

\* Lines 208-211.
known_section_headers ==
    {"experience", "education", "certifications", "skills", "projects", "summary"}

\* Lines 207-219.
_is_section_header(line) ==
    LET line_lower == StrLower(Strip(line))
    IN  IF Len(line) = 0 \/ Len(line) > 50 THEN FALSE
        ELSE \E header \in known_section_headers : In(header, line_lower)

\* The six kinds, in the order in which a line is tested for them.
SectionKinds == <<"EXPERIENCE", "EDUCATION", "SKILLS", "CERTIFICATIONS", "PROJECTS", "SUMMARY">>

\* Lines 15-43: the keyword lists of __init__.
SectionKeywords(kind) ==
    CASE kind = "EXPERIENCE" ->
             {"experience", "employment", "work history", "professional experience",
              "career history", "work experience", "professional background",
              "employment history", "recent experience", "relevant experience"}
      [] kind = "EDUCATION" ->
             {"education", "academic background", "academic qualifications",
              "educational background", "academic history", "qualifications",
              "degrees", "academic credentials"}
      [] kind = "SKILLS" ->
             {"skills", "technical skills", "core competencies", "competencies",
              "technical competencies", "key skills", "expertise", "proficiencies",
              "technologies", "technical proficiencies", "core skills",
              "technical expertise", "skill set"}
      [] kind = "CERTIFICATIONS" ->
             {"certifications", "certificates", "professional certifications",
              "licenses", "credentials", "professional credentials",
              "professional licenses", "industry certifications"}
      [] kind = "PROJECTS" ->
             {"projects", "project", "personal projects", "professional projects",
              "key projects", "selected projects", "academic projects"}
      [] OTHER ->
             {"summary", "objective", "profile", "about", "professional summary",
              "career summary"}

\* not section_indices.get(kind): the kind is not in the dict, or is there
\* with the index 0.
NotFound(section_indices, kind) ==
    kind \notin DOMAIN section_indices \/ section_indices[kind] = 0

\* Lines 154-155 (up to 89 characters the test on 0.7 is exact in tenths).
TooShortOrSymbolic(line_clean) ==
    Len(line_clean) < 3 \/ CountOutside(line_clean, Letters) * 10 > Len(line_clean) * 7

\* The test of lines 157-158 and its five repetitions.
IsHeaderOf(kind, line_clean, line_original) ==
    /\ \E k \in SectionKeywords(kind) : In(k, line_clean)
    /\ _is_section_header(line_original)

\* Lines 156-186: the first n kinds tested on the line of index i.
RECURSIVE MarkKinds(_, _, _, _, _)
MarkKinds(section_indices, line_clean, line_original, i, n) ==
    IF n = 0 THEN section_indices
    ELSE LET before == MarkKinds(section_indices, line_clean, line_original, i, n - 1)
             kind == SectionKinds[n]
         IN  IF NotFound(before, kind) /\ IsHeaderOf(kind, line_clean, line_original)
             THEN SetItem(before, kind, i)
             ELSE before

\* Lines 151-186: the body of the loop for the line of index i.
FindSectionLine(section_indices, line, i) ==
    LET line_original == clean_text(line)
        line_clean == StrLower(line_original)
    IN  IF TooShortOrSymbolic(line_clean) THEN section_indices
        ELSE MarkKinds(section_indices, line_clean, line_original, i, Len(SectionKinds))

\* Lines 149-189 on the first n lines.
RECURSIVE FindSectionBoundaries(_, _)
FindSectionBoundaries(lines, n) ==
    IF n = 0 THEN <<>>
    ELSE FindSectionLine(FindSectionBoundaries(lines, n - 1), lines[n], n - 1)

\* One turn of the loop of find_section_boundaries, and its return.
find_section_boundaries ==
    /\ call.fn = "find_section_boundaries"
    /\ call.pc = "loop"
    /\ IF call.i < Len(call.lines)
       THEN call' = [call EXCEPT
                       !.section_indices = FindSectionLine(@, call.lines[call.i + 1], call.i),
                       !.i = @ + 1]
       ELSE call' = [call EXCEPT !.pc = "returned"]
    /\ UNCHANGED <<gemini_api_key, resumes, request, response, frame>>


\* \d{n} matches at position p.
DigitsAt(s, p, n) == p >= 1 /\ p + n - 1 <= Len(s) /\ \A q \in p..(p + n - 1) : At(s, q) \in Digits

\* The position after \s* matched at position p.
RECURSIVE SkipWs(_, _)
SkipWs(s, p) == IF At(s, p) \in Whitespace THEN SkipWs(s, p + 1) ELSE p

\* The position after a match at p of a word whatever its case, 0 without one.
WordEnd(s, p, word) ==
    IF p >= 1 /\ StrLower(Slice(s, p, p + Len(word) - 1)) = word THEN p + Len(word) ELSE 0

Months == {"jan", "feb", "mar", "apr", "may", "jun", "jul", "aug", "sep", "oct", "nov", "dec"}

\* (Jan|...|Dec)\s*\d{4} at position p: the position after it, 0 without a match.
MonthYearEnd(s, p) ==
    IF p >= 1 /\ StrLower(Slice(s, p, p + 2)) \in Months /\ DigitsAt(s, SkipWs(s, p + 3), 4)
    THEN SkipWs(s, p + 3) + 4
    ELSE 0

\* \d{1,2}/\d{4} at position p, as many digits as it can take.
SlashDateEnd(s, p) ==
    IF DigitsAt(s, p, 2) /\ At(s, p + 2) = "/" /\ DigitsAt(s, p + 3, 4) THEN p + 7
    ELSE IF DigitsAt(s, p, 1) /\ At(s, p + 1) = "/" /\ DigitsAt(s, p + 2, 4) THEN p + 6
    ELSE 0

\* [-\u2013]: after clean_text the en dash is gone from every line.
Dashes == {"-", "^"}

\* \s*[-\u2013]\s* at position p: the position after it, 0 without a match.
DashEnd(s, p) == IF p >= 1 /\ At(s, SkipWs(s, p)) \in Dashes THEN SkipWs(s, SkipWs(s, p) + 1) ELSE 0

\* Lines 44-49.
job_title_indicators ==
    {"manager", "director", "engineer", "developer", "analyst", "specialist",
     "coordinator", "supervisor", "lead", "senior", "junior", "associate",
     "consultant", "architect", "administrator", "officer", "executive",
     "designer", "researcher", "scientist", "technician", "representative"}

\* Lines 371-380: one of the seven date patterns is found in the line.
HasDate(line) ==
    \/ \E p \in 1..Len(line) : MonthYearEnd(line, p) # 0
    \/ \E p \in 1..Len(line) : SlashDateEnd(line, p) # 0
    \/ \E p \in 1..Len(line) :
          /\ DigitsAt(line, p, 4)
          /\ DashEnd(line, p + 4) # 0
          /\ \/ DigitsAt(line, DashEnd(line, p + 4), 4)
             \/ WordEnd(line, DashEnd(line, p + 4), "present") # 0
    \/ In("present", StrLower(line))
    \/ \E p \in 1..Len(line) :
          /\ DigitsAt(line, p, 4)
          /\ WordEnd(line, SkipWs(line, p + 4), "to") # 0
          /\ DigitsAt(line, SkipWs(line, WordEnd(line, SkipWs(line, p + 4), "to")), 4)

\* Lines 368-385.
_is_job_header(line) ==
    IF Len(line) < 10 THEN FALSE
    ELSE IF ~HasDate(line) THEN FALSE
    ELSE LET line_lower == StrLower(line)
         IN  \/ \E sep \in {" - ", " ^ ", " | ", ",", " at "} : In(sep, line)
             \/ \E indicator \in job_title_indicators : In(indicator, line_lower)

\* s.replace(old, "") from position p on, old not empty: the occurrences of
\* old are taken from the left and do not overlap.
RECURSIVE RemoveFrom(_, _, _)
RemoveFrom(s, old, p) ==
    LET found == {q \in p..Len(s) : Slice(s, q, q + Len(old) - 1) = old}
    IN  IF found = {} THEN From(s, p)
        ELSE Slice(s, p, Least(found) - 1) \o RemoveFrom(s, old, Least(found) + Len(old))

Remove(s, old) == RemoveFrom(s, old, 1)

\* The position after the longest run of characters of the set from position p.
RunEnd(s, p, chars) == IF p > Len(s) THEN p ELSE Least({q \in p..(Len(s) + 1) : At(s, q) \notin chars})

\* Lines 393-395: the position after a match at position p of the date that
\* pattern k starts and ends with, 0 without a match.
DatePartEnd(s, p, k) ==
    CASE k = 1 -> MonthYearEnd(s, p)
      [] k = 2 -> IF DigitsAt(s, p, 4) THEN p + 4 ELSE 0
      [] OTHER -> SlashDateEnd(s, p)

\* (?:date|Present) of pattern k at position p; it takes the date when both
\* match.
DateOrPresentEnd(s, p, k) ==
    IF p = 0 THEN 0
    ELSE IF DatePartEnd(s, p, k) # 0 THEN DatePartEnd(s, p, k)
    ELSE WordEnd(s, p, "present")

\* \s*[-\u2013]\s* after a part that ended before position p, 0 without it.
DashAfter(s, p) == IF p = 0 THEN 0 ELSE DashEnd(s, p)

\* The position after a match of date pattern k at position p, 0 without a
\* match.
DateEnd(s, p, k) == DateOrPresentEnd(s, DashAfter(s, DatePartEnd(s, p, k)), k)

\* re.search of date pattern k: the positions where it matches.
DateStarts(s, k) == {p \in 1..Len(s) : DateEnd(s, p, k) # 0}

\* The first of the three patterns that is found in the line, 0 when none is.
DatePattern(s) ==
    IF DateStarts(s, 1) # {} THEN 1
    ELSE IF DateStarts(s, 2) # {} THEN 2
    ELSE IF DateStarts(s, 3) # {} THEN 3
    ELSE 0

\* date_match.group(1) of lines 397-401 for the pattern k that was found, ""
\* when none was.
DateGroupOf(s, k) ==
    IF k = 0 THEN "" ELSE SubSeq(s, Least(DateStarts(s, k)), DateEnd(s, Least(DateStarts(s, k)), k) - 1)

DateGroup(s) == DateGroupOf(s, DatePattern(s))

\* Line 402: re.sub(r'\s*[-\u2013]\s*$', '', line).
DropTrailingDash(s) ==
    LET starts == {p \in 1..Len(s) : DashEnd(s, p) = Len(s) + 1}
    IN  IF starts = {} THEN s ELSE Slice(s, 1, Least(starts) - 1)

\* Line 403: re.sub(r'^\s*[-\u2013]\s*', '', line).
DropLeadingDash(s) == IF DashEnd(s, 1) # 0 THEN From(s, DashEnd(s, 1)) ELSE s

\* Lines 388-390.
NewJob == [company |-> "", title |-> "", location |-> "", duration |-> "", responsibilities |-> <<>>]

\* [A-Z][A-Za-z\s]+ from position u: the position after it, 0 without a match.
PlaceEnd(s, u) ==
    IF At(s, u) \in UpperLetters /\ RunEnd(s, u + 1, Letters \cup Whitespace) > u + 1
    THEN RunEnd(s, u + 1, Letters \cup Whitespace)
    ELSE 0

\* The text after the comma at position c is \s*([A-Z][A-Za-z\s]+), then a
\* dash, then at least one character.
PlaceThenDash(s, u) ==
    /\ PlaceEnd(s, u) # 0
    /\ At(s, PlaceEnd(s, u)) \in Dashes
    /\ PlaceEnd(s, u) < Len(s)

\* Line 404: the commas that end group 1 of a match of
\* ^(.+?),\s*([A-Z][A-Za-z\s]+)\s*[-\u2013]\s*(.+)$
Match1Commas(s) ==
    {c \in 2..Len(s) : At(s, c) = "," /\ PlaceThenDash(s, SkipWs(s, c + 1))}

\* Lines 405-409: group 1 ends at the comma at position c and group 2 starts
\* at position u.
Match1Job(job, s, c, u) ==
    [job EXCEPT !.company = Strip(Slice(s, 1, c - 1)),
                !.location = Strip(Slice(s, u, PlaceEnd(s, u) - 1)),
                !.title = Strip(From(s, PlaceEnd(s, u) + 1))]

\* The position of the last comma of s, 0 without a comma.
LastComma(s) ==
    IF \E c \in 1..Len(s) : At(s, c) = "," THEN Greatest({c \in 1..Len(s) : At(s, c) = ","}) ELSE 0

\* Line 410: ^(.+?)\s*[-\u2013]\s*(.+?),\s*([A-Z][A-Za-z\s]+)$ matches only with
\* the last comma, at position c, before group 3, and with the first dash
\* that leaves a character for group 2.
Match2DashesBefore(s, c) ==
    IF c = 0 \/ PlaceEnd(s, SkipWs(s, c + 1)) # Len(s) + 1 THEN {}
    ELSE {d \in 2..Len(s) : At(s, d) \in Dashes /\ d + 2 <= c}

Match2Dashes(s) == Match2DashesBefore(s, LastComma(s))

\* Lines 411-415: group 1 ends before the dash at position d and group 2
\* before the comma at position c.
Match2Job(job, s, d, c) ==
    [job EXCEPT !.company = Strip(Slice(s, 1, d - 1)),
                !.title = Strip(Slice(s, d + 1, c - 1)),
                !.location = Strip(From(s, c + 1))]

\* Line 416: the positions of the word of ^(.+?)\s+at\s+(.+?)(?:,\s*(.+?))?$
\* in a line that does not end with whitespace, as every line is after line 401.
Match3Ats(s) ==
    {a \in 3..Len(s) :
        /\ WordEnd(s, a, "at") # 0
        /\ At(s, a - 1) \in Whitespace
        /\ At(s, a + 2) \in Whitespace
        /\ SkipWs(s, a + 2) <= Len(s)}

\* The commas that may end group 2 when it starts at position g.
Match3Commas(s, g) == {c \in (g + 1)..(Len(s) - 1) : At(s, c) = ","}

\* Lines 417-422: the word is at position a and group 2 starts at position g.
Match3Job(job, s, a, g) ==
    IF Match3Commas(s, g) = {}
    THEN [job EXCEPT !.title = Strip(Slice(s, 1, a - 1)), !.company = Strip(From(s, g))]
    ELSE [job EXCEPT !.title = Strip(Slice(s, 1, a - 1)),
                     !.company = Strip(Slice(s, g, Least(Match3Commas(s, g)) - 1)),
                     !.location = Strip(From(s, Least(Match3Commas(s, g)) + 1))]

\* Lines 423-433: re.split(r'\s*[-\u2013]\s*', line, 1) at its first match,
\* which starts at position p; both branches of line 428 assign the same.
SplitAt(job, s, p) ==
    [job EXCEPT !.company = Strip(Slice(s, 1, p - 1)), !.title = Strip(From(s, DashEnd(s, p)))]

SplitAtDash(job, s) ==
    IF In(" - ", s) \/ In(" ^ ", s) THEN SplitAt(job, s, Least({q \in 1..Len(s) : DashEnd(s, q) # 0})) ELSE job

\* Lines 434-435.
TitleIfNoNames(job, s) == IF job.company = "" /\ job.title = "" THEN [job EXCEPT !.title = s] ELSE job

\* Lines 404-436 on the line without its dates.
ParseNames(job, line) ==
    IF Match1Commas(line) # {}
    THEN Match1Job(job, line, Least(Match1Commas(line)), SkipWs(line, Least(Match1Commas(line)) + 1))
    ELSE IF Match2Dashes(line) # {}
    THEN Match2Job(job, line, Least(Match2Dashes(line)), LastComma(line))
    ELSE IF Match3Ats(line) # {}
    THEN Match3Job(job, line, Least(Match3Ats(line)), SkipWs(line, Least(Match3Ats(line)) + 2))
    ELSE TitleIfNoNames(SplitAtDash(job, line), line)

\* Lines 397-403: the job with its duration and the line without its dates,
\* where group is date_match.group(1), or "" without a match.
WithDuration(group) == IF group = "" THEN NewJob ELSE [NewJob EXCEPT !.duration = Strip(group)]

WithoutDates(line, group) ==
    DropLeadingDash(DropTrailingDash(IF group = "" THEN line ELSE Strip(Remove(line, group))))

\* Lines 387-437.
_parse_job_header(line) == ParseNames(WithDuration(DateGroup(line)), WithoutDates(line, DateGroup(line)))

\* Lines 445-450.
action_verbs ==
    {"led", "managed", "developed", "created", "implemented", "designed",
     "analyzed", "coordinated", "supervised", "maintained", "improved",
     "increased", "decreased", "reduced", "optimized", "streamlined",
     "established", "built", "executed", "delivered", "achieved"}

\* Lines 439-452.
_is_responsibility_line(line) ==
    IF WordCount(line) < 4 THEN FALSE
    ELSE IF _is_section_header(line) THEN FALSE
    ELSE LET line_lower == StrLower(line)
         IN  \/ \E verb \in action_verbs : In(verb, line_lower)
             \/ WordCount(line) > 8

\* lines[start:end] of Python, indices from 0.
Lines(lines, start, end) == IF start >= end THEN <<>> ELSE SubSeq(lines, start + 1, end)

\* Lines 335-338 and their copies in the other extractors: the least of
\* len(lines) and the section indices above start.
SectionEnd(lines, section_indices, start) ==
    Least({Len(lines)} \cup {section_indices[kind] : kind \in {k \in DOMAIN section_indices : section_indices[k] > start}})

\* Lines 334-339: the lines of a section whose header was found.
SectionLinesOf(lines, section_indices, kind) ==
    LET start == section_indices[kind] + 1
    IN  Lines(lines, start, SectionEnd(lines, section_indices, start))

\* The call after a turn of its loop that leaves the local variables st.
Looped(c, st) == [name \in DOMAIN c |-> IF name \in DOMAIN st THEN st[name] ELSE IF name = "i" THEN c.i + 1 ELSE c[name]]

\* Lines 350-362 for a line that is not a job header, while a job is open.
AddResponsibility(job, line) ==
    LET responsibility == clean_text(Strip(LStripChars(line, {"~", "-", "*"})))
        last == Len(job.responsibilities)
    IN  IF First(line) \in {"~", "-", "*"} \/ _is_responsibility_line(line)
        THEN IF responsibility # ""
             THEN [job EXCEPT !.responsibilities = Append(@, responsibility)]
             ELSE job
        ELSE IF WordCount(line) > 3
        THEN IF last > 0 /\ First(line) \in LowerLetters
             THEN [job EXCEPT !.responsibilities[last] = @ \o " " \o line]
             ELSE [job EXCEPT !.responsibilities = Append(@, line)]
        ELSE job

\* The loop without the test of current_job at lines 350 and 355: a line of
\* responsibility opens a job when none is open.
ExperienceLineWithoutJob(st, raw) ==
    LET line == clean_text(raw)
    IN  IF line = "" THEN st
        ELSE IF _is_job_header(line)
        THEN [experiences |-> st.experiences \o st.current_job, current_job |-> <<_parse_job_header(line)>>]
        ELSE IF st.current_job # <<>>
        THEN [st EXCEPT !.current_job = <<AddResponsibility(st.current_job[1], line)>>]
        ELSE [st EXCEPT !.current_job = <<AddResponsibility(NewJob, line)>>]

\* The loop where a job header opens an entry and the open one is not
\* appended (lines 347-348 left out).
ExperienceLineDroppingOpen(st, raw) ==
    LET line == clean_text(raw)
    IN  IF line = "" THEN st
        ELSE IF _is_job_header(line)
        THEN [experiences |-> st.experiences, current_job |-> <<_parse_job_header(line)>>]
        ELSE IF st.current_job # <<>>
        THEN [st EXCEPT !.current_job = <<AddResponsibility(st.current_job[1], line)>>]
        ELSE st

\* Lines 342-362: the body of the loop; current_job is <<>> for None and
\* <<job>> for a job.
ExperienceLine(st, raw) ==
    LET line == clean_text(raw)
    IN  IF line = "" THEN st
        ELSE IF _is_job_header(line)
        THEN [experiences |-> st.experiences \o st.current_job, current_job |-> <<_parse_job_header(line)>>]
        ELSE IF st.current_job # <<>>
        THEN [st EXCEPT !.current_job = <<AddResponsibility(st.current_job[1], line)>>]
        ELSE st

\* Lines 331-366, one turn of the loop at a time.
extract_experience ==
    /\ call.fn = "extract_experience"
    /\ \/ /\ call.pc = "start"
          /\ IF "EXPERIENCE" \notin DOMAIN call.section_indices
             THEN call' = [call EXCEPT !.pc = "returned"]
             ELSE call' = [call EXCEPT !.pc = "loop", !.exp_lines = SectionLinesOf(call.lines, call.section_indices, "EXPERIENCE")]
       \/ /\ call.pc = "loop"
          /\ call.i < Len(call.exp_lines)
          /\ call' = Looped(call, ExperienceLine([experiences |-> call.experiences, current_job |-> call.current_job], call.exp_lines[call.i + 1]))
       \/ /\ call.pc = "loop"
          /\ call.i = Len(call.exp_lines)
          /\ call' = [call EXCEPT !.experiences = @ \o call.current_job, !.pc = "returned"]
    /\ UNCHANGED <<gemini_api_key, resumes, request, response, frame>>

\* Lines 464-468.
degree_keywords ==
    {"bachelor", "master", "phd", "doctorate", "associate", "diploma",
     "certificate", "bs", "ba", "ms", "ma", "mba", "md", "jd",
     "bsc", "msc", "beng", "meng", "btech", "mtech"}

\* Lines 469-472.
institution_keywords ==
    {"university", "college", "institute", "school", "academy",
     "polytechnic", "conservatory"}

\* Lines 480-487: the years of (\d{4})(?:\s*[-\u2013]\s*(\d{4}))? at its first
\* match in the line, "" without a match.
Years(line) ==
    LET starts == {p \in 1..Len(line) : DigitsAt(line, p, 4)}
        p == Least(starts)
        second == DashEnd(line, p + 4)
    IN  IF starts = {} THEN ""
        ELSE IF second # 0 /\ DigitsAt(line, second, 4)
        THEN Slice(line, p, p + 3) \o "-" \o Slice(line, second, second + 3)
        ELSE Slice(line, p, p + 3)

\* gpa:?\s*(\d+\.?\d*) at position p: the position of its group, 0 without
\* a match.
GpaDigits(line, p) ==
    LET word == WordEnd(line, p, "gpa")
        digits == SkipWs(line, IF At(line, word) = ":" THEN word + 1 ELSE word)
    IN  IF word # 0 /\ At(line, digits) \in Digits THEN digits ELSE 0

\* Line 511: the group of the first match in the line, "" without a match.
Gpa(line) ==
    LET starts == {p \in 1..Len(line) : GpaDigits(line, p) # 0}
        first == GpaDigits(line, Least(starts))
        whole == RunEnd(line, first, Digits)
        last == IF At(line, whole) = "." THEN RunEnd(line, whole + 1, Digits) ELSE whole
    IN  IF starts = {} THEN "" ELSE Slice(line, first, last - 1)

\* Lines 492-498 and 504-510.
NewEdu(institution, degree, years) ==
    [institution |-> institution, degree |-> degree, field |-> "", years |-> years, gpa |-> ""]

\* Lines 488-510: current_edu is <<>> for {} and <<entry>> for an entry.
EducationKeywords(st, line) ==
    LET line_lower == StrLower(line)
        has_institution == \E keyword \in institution_keywords : In(keyword, line_lower)
        has_degree == \E keyword \in degree_keywords : In(keyword, line_lower)
        years == Years(line)
    IN  IF has_institution
        THEN [education |-> IF st.current_edu # <<>> /\ st.current_edu[1].institution # ""
                            THEN st.education \o st.current_edu
                            ELSE st.education,
              current_edu |-> <<NewEdu(line, "", years)>>]
        ELSE IF has_degree
        THEN IF st.current_edu # <<>>
             THEN [st EXCEPT !.current_edu[1].degree = line,
                             !.current_edu[1].years = IF years # "" /\ @ = "" THEN years ELSE @]
             ELSE [st EXCEPT !.current_edu = <<NewEdu("", line, years)>>]
        ELSE st

\* Lines 473-513: the body of the loop.
EducationLine(st, raw) ==
    LET line == clean_text(raw)
        keyed == EducationKeywords(st, line)
    IN  IF line = "" \/ Len(line) < 5 THEN st
        ELSE IF Gpa(line) # "" /\ keyed.current_edu # <<>>
        THEN [keyed EXCEPT !.current_edu[1].gpa = Gpa(line)]
        ELSE keyed

\* Lines 454-517, one turn of the loop at a time.
extract_education ==
    /\ call.fn = "extract_education"
    /\ \/ /\ call.pc = "start"
          /\ IF "EDUCATION" \notin DOMAIN call.section_indices
             THEN call' = [call EXCEPT !.pc = "returned"]
             ELSE call' = [call EXCEPT !.pc = "loop", !.edu_lines = SectionLinesOf(call.lines, call.section_indices, "EDUCATION")]
       \/ /\ call.pc = "loop"
          /\ call.i < Len(call.edu_lines)
          /\ call' = Looped(call, EducationLine([education |-> call.education, current_edu |-> call.current_edu], call.edu_lines[call.i + 1]))
       \/ /\ call.pc = "loop"
          /\ call.i = Len(call.edu_lines)
          /\ call' = [call EXCEPT
                          !.education = IF call.current_edu # <<>> /\ (call.current_edu[1].institution # "" \/ call.current_edu[1].degree # "")
                                        THEN @ \o call.current_edu
                                        ELSE @,
                          !.pc = "returned"]
    /\ UNCHANGED <<gemini_api_key, resumes, request, response, frame>>

\* clean_text applied to a text and then to what it returned.
CleanTwice ==
    /\ call.fn = "clean_text"
    /\ \/ /\ call.pc = "start"
          /\ call' = [call EXCEPT !.once = clean_text(call.text), !.pc = "once"]
       \/ /\ call.pc = "once"
          /\ call' = [call EXCEPT !.twice = clean_text(call.once), !.pc = "returned"]
    /\ UNCHANGED <<gemini_api_key, resumes, request, response, frame>>

----------------------------------------------------------------------------
(* UniversalResumeParser: extract_skills.                                  *)

\* Line 534: the characters of the pattern that split the skills.  The
\* middle dot U+00B7 of the pattern is not a character of the texts here.
SkillDelimiters == {":", ",", "|", ";", "~", "\n", "/", "\\"}

\* The position after the piece of s that starts at position p.
PieceEnd(s, p, delimiters) == Least({q \in p..(Len(s) + 1) : q = Len(s) + 1 \/ At(s, q) \in delimiters})

\* The positions where the pieces between the delimiters of s start.
PieceStarts(s, delimiters) == {p \in 1..Len(s) : At(s, p) \notin delimiters /\ (p = 1 \/ At(s, p - 1) \in delimiters)}

\* The pieces of s between runs of delimiters, in their order: the pieces
\* of re.split and of s.split that are not empty.
Pieces(s, delimiters) == [k \in 1..Cardinality(PieceStarts(s, delimiters)) |-> Slice(s, Nth(PieceStarts(s, delimiters), k, 0), PieceEnd(s, Nth(PieceStarts(s, delimiters), k, 0), delimiters) - 1)]

\* The items of a list at the positions of a set, in their order.
Select(list, kept) == [k \in 1..Cardinality(kept) |-> list[Nth(kept, k, 0)]]

\* The pieces stripped, those of more than n characters kept.
StrippedLongerThan(pieces, n) == Select([j \in DOMAIN pieces |-> Strip(pieces[j])], {j \in DOMAIN pieces : Len(Strip(pieces[j])) > n})

\* Lines 534-535.
RawSkills(skills_text) == StrippedLongerThan(Pieces(skills_text, SkillDelimiters), 1)

\* The list as it is, where line 537 drops what was seen before.
WithRepeats(raw_skills) == raw_skills

\* Line 537, list(dict.fromkeys(...)): each string where it is first.
FromKeys(raw_skills) == Select(raw_skills, {j \in DOMAIN raw_skills : \A h \in 1..(j - 1) : raw_skills[h] # raw_skills[j]})

\* Lines 519-538.
extract_skills ==
    /\ call.fn = "extract_skills"
    /\ call.pc = "start"
    /\ IF "SKILLS" \notin DOMAIN call.section_indices
       THEN call' = [call EXCEPT !.pc = "returned"]
       ELSE call' = [call EXCEPT
                         !.skills_text = Join(SectionLinesOf(call.lines, call.section_indices, "SKILLS"), " "),
                         !.skills = FromKeys(RawSkills(Join(SectionLinesOf(call.lines, call.section_indices, "SKILLS"), " "))),
                         !.pc = "returned"]
    /\ UNCHANGED <<gemini_api_key, resumes, request, response, frame>>

----------------------------------------------------------------------------
(* UniversalResumeParser: extract_summary and extract_projects.            *)

\* Lines 266-272: the indices among the first ten lines that have one of the
\* four words, and those of more than ten words.
SummaryWords == {"summary", "objective", "profile", "about"}
WordedLines(lines) == {i \in 0..(Len(lines) - 1) : i < 10 /\ \E k \in SummaryWords : In(k, StrLower(lines[i + 1]))}
DenseLines(lines) == {i \in 0..(Len(lines) - 1) : i < 10 /\ WordCount(lines[i + 1]) > 10}

\* Lines 263-276: the start of the summary when no SUMMARY header was found.
\* The lines of parse_resume are never empty.
GuessedStart(worded, dense) ==
    IF worded \cup dense = {} THEN 0
    ELSE IF Least(worded \cup dense) \in worded THEN Least(worded \cup dense) + 1
    ELSE Least(worded \cup dense)

\* Lines 278-284.
GuessedEnd(lines, section_indices, summary_start) ==
    IF DOMAIN section_indices # {} /\ Least({section_indices[k] : k \in DOMAIN section_indices}) > summary_start
    THEN Least({section_indices[k] : k \in DOMAIN section_indices})
    ELSE Len(lines)

\* Lines 286-296: the lines of index summary_start to summary_end - 1 that
\* are not empty once cleaned and are no section headers, joined.
SummaryOf(lines, summary_start, summary_end) ==
    Join(Select([j \in DOMAIN lines |-> clean_text(lines[j])],
                {j \in DOMAIN lines : /\ summary_start < j /\ j <= summary_end
                                      /\ clean_text(lines[j]) # "" /\ ~_is_section_header(clean_text(lines[j]))}), " ")

\* Lines 246-298, the first value of the pair returned.
extract_summary(lines, section_indices) ==
    IF /\ lines # <<>> /\ _is_section_header(lines[1])
       /\ ~("SUMMARY" \in DOMAIN section_indices /\ section_indices["SUMMARY"] = 0)
    THEN ""
    ELSE IF "SUMMARY" \in DOMAIN section_indices
    THEN SummaryOf(lines, section_indices["SUMMARY"] + 1, SectionEnd(lines, section_indices, section_indices["SUMMARY"] + 1))
    ELSE SummaryOf(lines, GuessedStart(WordedLines(lines), DenseLines(lines)),
                   GuessedEnd(lines, section_indices, GuessedStart(WordedLines(lines), DenseLines(lines))))

\* Lines 286-293: the indices of the lines appended to summary_lines.
SummaryLineIndices(lines, summary_start, summary_end) ==
    {i \in summary_start..(summary_end - 1) :
        /\ i < Len(lines)
        /\ clean_text(lines[i + 1]) # "" /\ ~_is_section_header(clean_text(lines[i + 1]))}

\* Lines 246-298 in two steps: the choice of summary_start and summary_end
\* (247-284), then the loop over the lines between them and the join
\* (286-298).  `taken` has the indices of the lines appended by the loop.
SummarySteps ==
    /\ call.fn = "extract_summary"
    /\ \/ /\ call.pc = "start"
          /\ call' =
                 IF /\ call.lines # <<>> /\ _is_section_header(call.lines[1])
                    /\ ~("SUMMARY" \in DOMAIN call.section_indices /\ call.section_indices["SUMMARY"] = 0)
                 THEN [call EXCEPT !.pc = "returned"]
                 ELSE IF "SUMMARY" \in DOMAIN call.section_indices
                 THEN [call EXCEPT !.summary_start = call.section_indices["SUMMARY"] + 1,
                                   !.summary_end = SectionEnd(call.lines, call.section_indices, call.section_indices["SUMMARY"] + 1),
                                   !.pc = "step4"]
                 ELSE [call EXCEPT !.summary_start = GuessedStart(WordedLines(call.lines), DenseLines(call.lines)),
                                   !.summary_end = GuessedEnd(call.lines, call.section_indices, GuessedStart(WordedLines(call.lines), DenseLines(call.lines))),
                                   !.pc = "step4"]
       \/ /\ call.pc = "step4"
          /\ call' = [call EXCEPT !.taken = SummaryLineIndices(call.lines, call.summary_start, call.summary_end),
                                  !.summary = SummaryOf(call.lines, call.summary_start, call.summary_end),
                                  !.pc = "returned"]
    /\ UNCHANGED <<gemini_api_key, resumes, request, response, frame>>

\* s.isupper(): s has a letter and no lowercase letter.
IsUpper(s) == (\E p \in 1..Len(s) : At(s, p) \in UpperLetters) /\ (\A p \in 1..Len(s) : At(s, p) \notin LowerLetters)

\* Lines 313-323: the body of the loop; st has the projects closed so far
\* and the current one.
ProjectLine(st, raw) ==
    IF _is_section_header(clean_text(raw)) \/ (IsUpper(clean_text(raw)) /\ WordCount(clean_text(raw)) <= 5)
    THEN [projects |-> IF st.current_project.title # "" \/ st.current_project.details # <<>>
                       THEN Append(st.projects, st.current_project)
                       ELSE st.projects,
          current_project |-> [title |-> clean_text(raw), details |-> <<>>]]
    ELSE IF clean_text(raw) # ""
    THEN [st EXCEPT !.current_project.details = Append(@, clean_text(raw))]
    ELSE st

\* Lines 311-323: the loop over the first n lines of the section.
RECURSIVE ProjectLoop(_, _)
ProjectLoop(project_lines, n) ==
    IF n = 0 THEN [projects |-> <<>>, current_project |-> [title |-> "", details |-> <<>>]]
    ELSE ProjectLine(ProjectLoop(project_lines, n - 1), project_lines[n])

\* Lines 324-327.
ProjectsOf(st) ==
    IF st.current_project.title # "" \/ st.current_project.details # <<>>
    THEN Append(st.projects, st.current_project)
    ELSE st.projects

\* Lines 300-327.
extract_projects(lines, section_indices) ==
    IF "PROJECTS" \notin DOMAIN section_indices THEN <<>>
    ELSE ProjectsOf(ProjectLoop(SectionLinesOf(lines, section_indices, "PROJECTS"), Len(SectionLinesOf(lines, section_indices, "PROJECTS"))))

----------------------------------------------------------------------------
(* UniversalResumeParser: calculate_total_experience.  A date is a pair of *)
(* a year and a month, <<>> where the parsing of it raises.                *)

DigitChars == <<"0", "1", "2", "3", "4", "5", "6", "7", "8", "9">>

\* int(s) for a string of digits.
RECURSIVE Number(_)
Number(s) ==
    IF s = "" THEN 0
    ELSE 10 * Number(Slice(s, 1, Len(s) - 1)) + (CHOOSE d \in 0..9 : DigitChars[d + 1] = Last(s))

\* The months as dateutil reads them, whatever their case.
MonthNames ==
    <<{"jan", "january"}, {"feb", "february"}, {"mar", "march"}, {"apr", "april"}, {"may"}, {"jun", "june"},
      {"jul", "july"}, {"aug", "august"}, {"sep", "sept", "september"}, {"oct", "october"}, {"nov", "november"}, {"dec", "december"}>>

\* The date of a month and a year, <<>> for a month that is none.
DateOf(year, months) == IF months = {} THEN <<>> ELSE <<year, Least(months)>>

\* date_parser.parse(text, default=date_parser.parse("Jan 1")) of lines 836
\* and 837 on the texts the three patterns give it: a year alone is in the
\* month of the default, a word that is no month raises.
ParseDate(text) ==
    IF Len(text) = 4 THEN <<Number(text), 1>>
    ELSE IF At(text, 3) = "/" THEN DateOf(Number(From(text, 4)), {Number(Slice(text, 1, 2))} \cap 1..12)
    ELSE DateOf(Number(From(text, Len(text) - 3)), {m \in 1..12 : StrLower(Slice(text, 1, Len(text) - 5)) \in MonthNames[m]})

\* [A-Za-z]{3,9} \d{4} at position p: the position after it, 0 without a match.
WordYearEnd(s, p, e) == IF e - p \in 3..9 /\ At(s, e) = " " /\ DigitsAt(s, e + 1, 4) THEN e + 5 ELSE 0

\* Lines 826-830: the position after the first group of pattern k at
\* position p, 0 without a match.
StartGroupEnd(s, p, k) ==
    IF k = 1 THEN WordYearEnd(s, p, RunEnd(s, p, Letters))
    ELSE IF k = 2 THEN (IF DigitsAt(s, p, 4) THEN p + 4 ELSE 0)
    ELSE IF DigitsAt(s, p, 2) /\ At(s, p + 2) = "/" /\ DigitsAt(s, p + 3, 4) THEN p + 7 ELSE 0

\* The position after the second group of pattern k at position p, 0 without
\* a match: the date of the pattern, or else the word Present as written.
EndGroupEnd(s, p, k) ==
    IF p >= 1 /\ StartGroupEnd(s, p, k) # 0 THEN StartGroupEnd(s, p, k)
    ELSE IF p >= 1 /\ Slice(s, p, p + 6) = "Present" THEN p + 7
    ELSE 0

\* The positions where re.search may match pattern k.
DurationStarts(s, k) ==
    {p \in 1..Len(s) : StartGroupEnd(s, p, k) # 0 /\ EndGroupEnd(s, DashEnd(s, StartGroupEnd(s, p, k)), k) # 0}

\* Lines 838-839.
MonthsBetween(start_date, end_date) ==
    IF (end_date[1] - start_date[1]) * 12 + (end_date[2] - start_date[2]) > 0
    THEN (end_date[1] - start_date[1]) * 12 + (end_date[2] - start_date[2])
    ELSE 0

\* Lines 834-841: start and end are the groups of the match, now is
\* datetime.now(); an exception of the parsing gives 0.
SpanOfGroups(start, end, now) ==
    IF ParseDate(start) = <<>> THEN 0
    ELSE IF StrLower(Strip(end)) = "present" THEN MonthsBetween(ParseDate(start), now)
    ELSE IF ParseDate(end) = <<>> THEN 0
    ELSE MonthsBetween(ParseDate(start), ParseDate(end))

\* The groups of the match of pattern k at position p.
SpanOfMatch(s, p, k, now) ==
    SpanOfGroups(Slice(s, p, StartGroupEnd(s, p, k) - 1),
                 Slice(s, DashEnd(s, StartGroupEnd(s, p, k)), EndGroupEnd(s, DashEnd(s, StartGroupEnd(s, p, k)), k) - 1),
                 now)

\* Lines 825-842: the first pattern that matches decides.
extract_dates(duration_str, now) ==
    IF DurationStarts(duration_str, 1) # {} THEN SpanOfMatch(duration_str, Least(DurationStarts(duration_str, 1)), 1, now)
    ELSE IF DurationStarts(duration_str, 2) # {} THEN SpanOfMatch(duration_str, Least(DurationStarts(duration_str, 2)), 2, now)
    ELSE IF DurationStarts(duration_str, 3) # {} THEN SpanOfMatch(duration_str, Least(DurationStarts(duration_str, 3)), 3, now)
    ELSE 0

\* Line 844: exp.get('duration', '').
DurationOf(exp) == IF "duration" \in DOMAIN exp THEN exp.duration ELSE ""

\* Line 849.
TotalExperience(total_months) ==
    IF total_months \div 12 # 0 \/ total_months % 12 # 0
    THEN ToString(total_months \div 12) \o " years, " \o ToString(total_months % 12) \o " months"
    ELSE "0 years, 0 months"

\* Lines 823-849, one turn of the loop at a time.
calculate_total_experience ==
    /\ call.fn = "calculate_total_experience"
    /\ \/ /\ call.pc = "loop"
          /\ call.i < Len(call.experiences)
          /\ call' = [call EXCEPT
                          !.total_months = @ + (IF DurationOf(call.experiences[call.i + 1]) # ""
                                                THEN extract_dates(DurationOf(call.experiences[call.i + 1]), call.now)
                                                ELSE 0),
                          !.i = @ + 1]
       \/ /\ call.pc = "loop"
          /\ call.i = Len(call.experiences)
          /\ call' = [call EXCEPT !.result = TotalExperience(call.total_months), !.pc = "returned"]
    /\ UNCHANGED <<gemini_api_key, resumes, request, response, frame>>

----------------------------------------------------------------------------
(* UniversalResumeParser.parse_resume.  extract_contact_info and           *)
(* extract_certifications read the text alone; what they return is given   *)
(* with the call.                                                          *)

\* Line 853: the lines of the text that are not blank, stripped.
TextLines(resume_text) == StrippedLongerThan(Pieces(resume_text, {"\n"}), 0)

\* Lines 342-362: the loop of extract_experience over the first n lines.
RECURSIVE ExperienceLoop(_, _)
ExperienceLoop(exp_lines, n) ==
    IF n = 0 THEN [experiences |-> <<>>, current_job |-> <<>>]
    ELSE ExperienceLine(ExperienceLoop(exp_lines, n - 1), exp_lines[n])

\* Lines 364-365.
ExperienceClosed(st) == st.experiences \o st.current_job

\* Lines 340-366 on the lines of the section.
ExperiencesIn(exp_lines) == ExperienceClosed(ExperienceLoop(exp_lines, Len(exp_lines)))

\* Lines 331-366 as one call.
ExperiencesOf(lines, section_indices) ==
    IF "EXPERIENCE" \notin DOMAIN section_indices THEN <<>>
    ELSE ExperiencesIn(SectionLinesOf(lines, section_indices, "EXPERIENCE"))

\* Lines 473-513: the loop of extract_education over the first n lines.
RECURSIVE EducationLoop(_, _)
EducationLoop(edu_lines, n) ==
    IF n = 0 THEN [education |-> <<>>, current_edu |-> <<>>]
    ELSE EducationLine(EducationLoop(edu_lines, n - 1), edu_lines[n])

\* Lines 515-516.
EducationClosed(st) ==
    IF st.current_edu # <<>> /\ (st.current_edu[1].institution # "" \/ st.current_edu[1].degree # "")
    THEN st.education \o st.current_edu
    ELSE st.education

\* Lines 463-517 on the lines of the section.
EducationIn(edu_lines) == EducationClosed(EducationLoop(edu_lines, Len(edu_lines)))

\* Lines 454-517 as one call.
EducationOf(lines, section_indices) ==
    IF "EDUCATION" \notin DOMAIN section_indices THEN <<>>
    ELSE EducationIn(SectionLinesOf(lines, section_indices, "EDUCATION"))

\* Lines 519-538 as one call.
SkillsOf(lines, section_indices) ==
    IF "SKILLS" \notin DOMAIN section_indices THEN <<>>
    ELSE FromKeys(RawSkills(Join(SectionLinesOf(lines, section_indices, "SKILLS"), " ")))

\* Lines 843-846: the months of the first n entries.
RECURSIVE TotalMonths(_, _, _)
TotalMonths(experiences, n, now) ==
    IF n = 0 THEN 0
    ELSE TotalMonths(experiences, n - 1, now)
         + (IF DurationOf(experiences[n]) # "" THEN extract_dates(DurationOf(experiences[n]), now) ELSE 0)

\* What an expression gives: a value, or the exception it raises.
Value(v) == [raised |-> FALSE, value |-> v]
IndexError == [raised |-> TRUE, value |-> "IndexError"]

\* experiences[0]['title'] without the test of line 863.
FirstTitle(experiences) == IF experiences = <<>> THEN IndexError ELSE Value(experiences[1].title)

\* Line 863.
CurrentTitle(experiences) == IF experiences # <<>> THEN Value(experiences[1].title) ELSE Value("")

\* Lines 867-869 and 872-874: the inner lists joined, and these joined.
JoinEach(entries, key) == Join([j \in DOMAIN entries |-> Join(entries[j][key], " ")], " ")

\* Lines 883-886.
AllEducationText(education) ==
    Join([j \in DOMAIN education |-> education[j].institution \o " " \o education[j].degree \o education[j].gpa], " ")

\* Lines 898-926: the record of the values of lines 852-887; the timestamp
\* is the year and the month of datetime.now().
ResumeRecord(file_name, contact_info, now, x) ==
    [file_name |-> file_name,
     name |-> contact_info.name, phone |-> contact_info.phone, email |-> contact_info.email,
     linkedin |-> contact_info.linkedin, location |-> contact_info.location,
     github |-> contact_info.github, website |-> contact_info.website,
     summary |-> x.summary,
     total_experience_years |-> TotalExperience(TotalMonths(x.experiences, Len(x.experiences), now)),
     current_title |-> x.current_title.value,
     experiences |-> x.experiences,
     education |-> x.education,
     certifications |-> x.certifications,
     skills |-> x.skills,
     projects |-> x.projects,
     all_skills_text |-> Join(x.skills, " "),
     all_experience_text |-> JoinEach(x.experiences, "responsibilities"),
     all_project_text |-> JoinEach(x.projects, "details"),
     all_education_text |-> AllEducationText(x.education),
     all_certifications_text |-> Join(x.certifications, " "),
     searchable_content |->
         SearchableContent([summary |-> x.summary, all_skills_text |-> Join(x.skills, " "),
                            all_experience_text |-> JoinEach(x.experiences, "responsibilities"),
                            all_project_text |-> JoinEach(x.projects, "details"),
                            all_certifications_text |-> Join(x.certifications, " ")]),
     searchable_ollama_content |->
         SearchableOllamaContent([summary |-> x.summary, all_skills_text |-> Join(x.skills, " "),
                                  all_experience_text |-> JoinEach(x.experiences, "responsibilities"),
                                  all_project_text |-> JoinEach(x.projects, "details")]),
     parsing_metadata |-> [parsing_timestamp |-> now, parser_version |-> "2.0"]]

\* Line 863 after lines 855-862.
WithCurrentTitle(x) == [name \in DOMAIN x \cup {"current_title"} |-> IF name = "current_title" THEN CurrentTitle(x.experiences) ELSE x[name]]

\* Lines 855-863: what the extractors return on the lines of the text.
ExtractedFrom(lines, section_indices, certifications) ==
    WithCurrentTitle([summary |-> extract_summary(lines, section_indices),
                      experiences |-> ExperiencesOf(lines, section_indices),
                      education |-> EducationOf(lines, section_indices),
                      projects |-> extract_projects(lines, section_indices),
                      certifications |-> certifications,
                      skills |-> SkillsOf(lines, section_indices)])

\* Lines 851-927: what line 863 raises leaves the function.
ParseResume(file_name, contact_info, now, x) ==
    IF x.current_title.raised THEN x.current_title
    ELSE ResumeRecord(file_name, contact_info, now, x)

\* The call when parse_resume returns.
ParsedIn(c, lines, section_indices) ==
    [c EXCEPT !.lines = lines,
              !.section_indices = section_indices,
              !.result = ParseResume(c.file_name, c.contact_info, c.now, ExtractedFrom(lines, section_indices, c.certifications)),
              !.pc = "returned"]

\* Line 854.
ParsedLines(c, lines) == ParsedIn(c, lines, FindSectionBoundaries(lines, Len(lines)))

\* Lines 851-927.
parse_resume ==
    /\ call.fn = "parse_resume"
    /\ call.pc = "start"
    /\ call' = ParsedLines(call, TextLines(call.resume_text))
    /\ UNCHANGED <<gemini_api_key, resumes, request, response, frame>>

\* The answers of the chat call: those of the keyword service above, a
\* response without a message, and the object the prompt asks for.
NoMessage == Answer(<<>>)
TieredAnswer ==
    Answer(<<Tok("lbrace"), Scalar("required_keywords"), Scalar("preferred_keywords"),
             Tok("rbrace")>>)
OllamaAnswers == GeminiAnswers \cup {NoMessage, TieredAnswer}

ParsedResumes ==
    {AssembleRecord("cv.pdf", Extracted(summary, skills, experience, certifications)) :
        summary \in {"", "Backend engineer"},
        skills \in {<<>>, <<"python">>, <<"python", "sql">>},
        experience \in {"", "Built the billing service"},
        certifications \in {<<>>, <<"PMP">>}}

AugmentCalls ==
    {[fn |-> "augment_keywords", pc |-> "called", parsed_resume |-> r, ollama |-> o,
      sent |-> "", raised |-> FALSE, result |-> r] : r \in ParsedResumes, o \in OllamaAnswers}

----------------------------------------------------------------------------
(* The specifications.                                                     *)

\* No request is being answered.
Idle == request.kind = "none"

Init ==
    /\ gemini_api_key \in BOOLEAN
    /\ resumes = <<>>
    /\ request = NoRequest
    /\ response = NoResponse
    /\ frame = NoFrame
    /\ call = NoCall

\* Uploads of readable files that fill the table, and every match request.
NextMatch ==
    \/ /\ Idle
       /\ \E user \in Users, files \in Batches(PlainFiles) : upload_resumes(user, TRUE, files)
    \/ /\ Idle
       /\ \E user \in Users, data \in MatchRequests : match_resumes(user, data)
    \/ SendResponse

SpecMatch == Init /\ [][NextMatch]_vars

\* Every upload request.
NextUpload ==
    \/ /\ Idle
       /\ \E user \in Users, files \in Batches(Files) : upload_resumes(user, TRUE, files)
    \/ \E user \in Users : upload_resumes(user, FALSE, <<>>)
    \/ SendResponse

SpecUpload == Init /\ [][NextUpload]_vars

\* Upload requests whose files may fail at the store as well.
NextBatch ==
    \/ /\ Idle
       /\ \E user \in Users, files \in Batches(FailingFiles) : upload_resumes(user, TRUE, files)
    \/ SendResponse

SpecBatch == Init /\ [][NextBatch]_vars

\* The identifiers a request may name: those of the table and one beyond.
RequestIds == 1..(MaxResumes + 1)

\* Every operation on the Resume table: uploads, matching, and the listing,
\* download, detail and statistics operations.
NextApp ==
    \/ /\ Idle
       /\ \E user \in Users, files \in Batches(PlainFiles) : upload_resumes(user, TRUE, files)
    \/ /\ Idle
       /\ \E user \in Users, data \in ExtraKeyRequests : match_resumes(user, data)
    \/ \E user \in Users : get_user_resumes(user)
    \/ \E user \in Users, resume_id \in RequestIds : download_resume(user, resume_id)
    \/ \E user \in Users, resume_id \in RequestIds : get_resume_details(user, resume_id)
    \/ \E user \in Users : get_stats(user)
    \/ SendResponse

SpecApp == Init /\ [][NextApp]_vars

\* The files of the concurrent uploads: one readable file of each content
\* and an unreadable one.
WorkerFiles ==
    {f \in PlainFiles : f.gemini = Raises} \cup {f \in UnreadableFiles : f.content_hash = "h1"}

WorkerBatches(files) == UNION {[1..n -> files] : n \in 1..MaxFiles}

InitWorkers ==
    /\ gemini_api_key = FALSE
    /\ resumes = <<>>
    /\ request = [w \in Workers |-> NoRequest]
    /\ response = [w \in Workers |-> NoResponse]
    /\ frame = [w \in Workers |-> NoFrame]
    /\ call = NoCall

\* Upload requests answered by two workers whose statements interleave.
NextWorkers ==
    \/ \E w \in Workers, user \in Users, files \in WorkerBatches(WorkerFiles) :
           ReceiveUpload(w, user, files)
    \/ \E w \in Workers : QueryExisting(w)
    \/ \E w \in Workers : StoreResume(w)
    \/ \E w \in Workers : RespondUpload(w)

SpecWorkers == InitWorkers /\ [][NextWorkers]_vars

\* Match requests that differ in the resumes they name.
SelectingRequests == {r \in RankingRequests : r.top_k = NoTopK}

\* Uploads by two users and the requests that name resumes by identifier.
NextOwners ==
    \/ /\ Idle
       /\ \E user \in Users, files \in Batches(PlainFiles) : upload_resumes(user, TRUE, files)
    \/ /\ Idle
       /\ \E user \in Users, data \in SelectingRequests : match_resumes(user, data)
    \/ \E user \in Users, resume_id \in RequestIds : download_resume(user, resume_id)
    \/ \E user \in Users, resume_id \in RequestIds : get_resume_details(user, resume_id)
    \/ SendResponse

SpecOwners == Init /\ [][NextOwners]_vars

\* No request is in the server; `calls` are the calls the parser may get.
InitParser(calls) ==
    /\ gemini_api_key = FALSE
    /\ resumes = <<>>
    /\ request = NoRequest
    /\ response = NoResponse
    /\ frame = NoFrame
    /\ call \in calls

\* augment_keywords on every resume record and every answer of the chat call.
InitAugment == InitParser(AugmentCalls)
NextAugment == augment_keywords
SpecAugment == InitAugment /\ [][NextAugment]_vars

\* The texts of 1 to MaxLines lines over a vocabulary of lines.
Documents(vocabulary) ==
    UNION {[1..n -> vocabulary] : n \in 1..MaxLines}

\* Lines of a resume: headers of three kinds, one of them in two wordings, a
\* line of content, and a line too short to be looked at.
SectionLines ==
    {"Skills", "Technical Skills", "Experience", "Education", "Python, SQL", "C#"}

\* find_section_boundaries as parse_resume calls it (line 870), before its loop.
SectionCalls(vocabulary) ==
    {[fn |-> "find_section_boundaries", pc |-> "loop", lines |-> lines, section_indices |-> <<>>, i |-> 0] : lines \in Documents(vocabulary)}

InitSections == InitParser(SectionCalls(SectionLines))
NextSections == find_section_boundaries
SpecSections == InitSections /\ [][NextSections]_vars

\* Lines of a resume about work: the header of the section, the header of a
\* job, a line after a bullet, a line after a dash, and a line of prose.
ExperienceLines ==
    {"Experience", "Senior Engineer - Acme Corp, NY - Jan 2019 - Present", "~ Built APIs",
     "- Led team", "worked on the billing service"}

\* extract_experience as parse_resume calls it (lines 853-856).
ExperienceCall(lines) ==
    [fn |-> "extract_experience", pc |-> "start", lines |-> lines, section_indices |-> FindSectionBoundaries(lines, Len(lines)), exp_lines |-> <<>>, i |-> 0, experiences |-> <<>>, current_job |-> <<>>]

ExperienceCalls(vocabulary) == {ExperienceCall(lines) : lines \in Documents(vocabulary)}

InitExperience == InitParser(ExperienceCalls(ExperienceLines))
NextExperience == extract_experience
SpecExperience == InitExperience /\ [][NextExperience]_vars

\* Lines of a resume with two jobs: the header of the section, the headers
\* of the jobs, and two lines of prose that start in lowercase, the second
\* with the letters of a verb of _is_responsibility_line.
JobLines ==
    {"Experience", "Senior Engineer - Acme Corp, NY - Jan 2019 - Present", "Developer at Initech, Austin 2016 - 2018",
     "worked on the billing service", "and on the ledger"}

InitJobs == InitParser(ExperienceCalls(JobLines))
NextJobs == extract_experience
SpecJobs == InitJobs /\ [][NextJobs]_vars

\* Lines of a resume about studies: the header of the section, a degree, two
\* institutions, one of them with its years, and a grade.
EducationLines ==
    {"Education", "BSc Physics 2015", "State University 2016 - 2020", "City College", "GPA: 3.8"}

\* extract_education as parse_resume calls it (lines 853-857).
EducationCall(lines) ==
    [fn |-> "extract_education", pc |-> "start", lines |-> lines, section_indices |-> FindSectionBoundaries(lines, Len(lines)), edu_lines |-> <<>>, i |-> 0, education |-> <<>>, current_edu |-> <<>>]

EducationCalls(vocabulary) == {EducationCall(lines) : lines \in Documents(vocabulary)}

InitEducation == InitParser(EducationCalls(EducationLines))
NextEducation == extract_education
SpecEducation == InitEducation /\ [][NextEducation]_vars

\* Lines of a resume about studies with years on lines of their own: the
\* header of the section, an institution, a degree with its year, and years
\* without a keyword.
YearLines ==
    {"Education", "City College", "BSc Physics 2015", "2016 - 2020", "Graduated 2020"}

InitYears == InitParser(EducationCalls(YearLines))
NextYears == extract_education
SpecYears == InitYears /\ [][NextYears]_vars

\* Lines of a resume with two sections: their headers, a line of work and a
\* line of studies.
TwoSectionLines == {"Experience", "Education", "- Led team", "City College"}

\* The calls of the two extractors on the same texts.
InitRanges == InitParser(ExperienceCalls(TwoSectionLines) \cup EducationCalls(TwoSectionLines))
NextRanges == extract_experience \/ extract_education
SpecRanges == InitRanges /\ [][NextRanges]_vars

\* Lines of a resume about skills: the header of the section, the header of
\* the next one, skills between four delimiters, skills named before on
\* another line with one of a single letter, and empty pieces.
SkillsLines ==
    {"Skills", "Experience", "Python, SQL | Docker; AWS", "SQL / Python: C", "a, Go;; AWS"}

\* extract_skills as parse_resume calls it (lines 853-858).
SkillsCalls(vocabulary) ==
    {[fn |-> "extract_skills", pc |-> "start", lines |-> lines, section_indices |-> FindSectionBoundaries(lines, Len(lines)), skills_text |-> "", skills |-> <<>>] : lines \in Documents(vocabulary)}

InitSkills == InitParser(SkillsCalls(SkillsLines))
NextSkills == extract_skills
SpecSkills == InitSkills /\ [][NextSkills]_vars

\* Lines before the first section: a name, a sentence with the word "about",
\* two section headers, a line of content and a Summary header.
SummaryLines ==
    {"Jane Doe", "I care about quality", "Skills", "Experience", "Led team of five", "Summary"}

\* extract_summary as parse_resume calls it (lines 853-855).
SummaryCalls(vocabulary) ==
    {[fn |-> "extract_summary", pc |-> "start", lines |-> lines, section_indices |-> FindSectionBoundaries(lines, Len(lines)), summary_start |-> 0, summary_end |-> 0, taken |-> {}, summary |-> ""] : lines \in Documents(vocabulary)}

InitSummary == InitParser(SummaryCalls(SummaryLines))
NextSummary == SummarySteps
SpecSummary == InitSummary /\ [][NextSummary]_vars

\* Durations of job entries: none, one of each of the three shapes, a slash
\* date to the present day, an end before its start, a word that is no
\* month before a year, and a text without a date.
Durations ==
    {"", "Jan 2019 - Mar 2020", "2019 - 2021", "03/2020 - 05/2021", "03/2020 - Present",
     "Mar 2021 - Jan 2019", "Since 2019 - Present", "last spring"}

\* Job entries with these durations, and one without the key.
JobEntries == {[duration |-> d] : d \in Durations} \cup {[title |-> "Engineer"]}

\* The year and the month of datetime.now(): after and before the dates above.
Nows == {<<2021, 6>>, <<2019, 2>>}

\* calculate_total_experience on the lists of up to MaxJobs entries.
TotalCalls(entries) ==
    {[fn |-> "calculate_total_experience", pc |-> "loop", experiences |-> experiences, now |-> now, i |-> 0, total_months |-> 0, result |-> ""] :
        experiences \in UNION {[1..n -> entries] : n \in 0..MaxJobs}, now \in Nows}

InitTotal == InitParser(TotalCalls(JobEntries))
NextTotal == calculate_total_experience
SpecTotal == InitTotal /\ [][NextTotal]_vars

\* The characters of the texts given to clean_text: a letter, a space, a
\* tab, a bullet, another character outside ASCII and a dash.
CleanChars == {"a", " ", "\t", "~", "$", "-"}

\* The texts of up to MaxChars of these characters.
RECURSIVE Texts(_)
Texts(n) == IF n = 0 THEN {""} ELSE Texts(n - 1) \cup {t \o c : t \in {u \in Texts(n - 1) : Len(u) = n - 1}, c \in CleanChars}

CleanCalls(texts) == {[fn |-> "clean_text", pc |-> "start", text |-> text, once |-> "", twice |-> ""] : text \in texts}

InitClean == InitParser(CleanCalls(Texts(MaxChars)))
NextClean == CleanTwice
SpecClean == InitClean /\ [][NextClean]_vars

\* Lines of a resume text: two headers, the header of a job, a bullet line
\* and a blank line.
ResumeLines ==
    {"Experience", "Senior Engineer - Acme Corp, NY - Jan 2019 - Present", "~ Built APIs", "Skills", " "}

\* What extract_contact_info and extract_certifications return: nothing
\* found, and an address and a certification found.
FoundInText ==
    {[contact_info |-> [name |-> "", phone |-> "", email |-> "", linkedin |-> "", location |-> "", github |-> "", website |-> ""],
      certifications |-> <<>>],
     [contact_info |-> [name |-> "", phone |-> "", email |-> "jane@example.com", linkedin |-> "", location |-> "", github |-> "", website |-> ""],
      certifications |-> <<"PMP">>]}

\* parse_resume on the empty text and on the texts of these lines.
ParseCalls(vocabulary) ==
    {[fn |-> "parse_resume", pc |-> "start", resume_text |-> resume_text, file_name |-> "resume.pdf",
      contact_info |-> found.contact_info, certifications |-> found.certifications, now |-> <<2021, 6>>,
      lines |-> <<>>, section_indices |-> <<>>, result |-> <<>>] :
        resume_text \in {""} \cup {Join(lines, "\n") : lines \in Documents(vocabulary)}, found \in FoundInText}

InitParse == InitParser(ParseCalls(ResumeLines))
NextParse == parse_resume
SpecParse == InitParse /\ [][NextParse]_vars

----------------------------------------------------------------------------
(* Vocabulary of the properties below.                                     *)

Matching == request.kind = "match"
Scored == Matching /\ response.kind = "results"
Jd == request.data.keywords

\* The job keywords a request gives for a tier and category: none when the
\* tier or the category is absent.
JobKeywords(jd, importance, category) ==
    IF TierKey(importance) \in DOMAIN jd /\ category \in DOMAIN jd[TierKey(importance)]
    THEN jd[TierKey(importance)][category]
    ELSE <<>>

Populated(jd, importance) ==
    {category \in {"hard_skills", "tools_and_platforms", "methodologies_and_frameworks"} :
        JobKeywords(jd, importance, category) # <<>>}

\* The keywords of a request with every non-scoring category removed.
ScoringPart(jd) ==
    [k \in DOMAIN jd |->
        [category \in DOMAIN jd[k] \cap
                      {"hard_skills", "tools_and_platforms", "methodologies_and_frameworks"}
            |-> jd[k][category]]]

RECURSIVE FSum(_)
FSum(f) ==
    IF DOMAIN f = {} THEN FZero
    ELSE LET c == CHOOSE x \in DOMAIN f : TRUE
         IN  FAdd(f[c], FSum([x \in DOMAIN f \ {c} |-> f[x]]))

InUnitInterval(x) == FLeq(FZero, x) /\ FLeq(x, FOne)

Scores(resp) == [i \in DOMAIN resp.results |->
                    <<resp.results[i].resume_id, resp.results[i].score>>]

\* The stored resume an entry of the answer is about.
ResumeOf(entry) == resumes[entry.resume_id]

----------------------------------------------------------------------------
(* C1: a request whose only job keywords are required.hard_skills =        *)
(* ["Python","SQL"] gives a resume of the caller that has "python" but not *)
(* "sql" among its lowercased keywords the score 1/2.                      *)

OnlyRequiredHardSkills(jd) ==
    /\ JobKeywords(jd, "required", "hard_skills") = <<"Python", "SQL">>
    /\ \A k \in DOMAIN jd : \A category \in DOMAIN jd[k] :
           (k = "required_keywords" /\ category = "hard_skills") \/ jd[k][category] = <<>>

\* C1: the resume is returned with score 1/2.
HalfMatchExample ==
    (/\ Matching
     /\ OnlyRequiredHardSkills(Jd)
     /\ request.data.top_k.kind = "absent"
     /\ request.data.resume_ids.kind = "absent")
    => \A i \in DOMAIN resumes :
          (/\ resumes[i].user_id = request.user
           /\ "python" \in ResumeKeywords(resumes[i])
           /\ "sql" \notin ResumeKeywords(resumes[i]))
          => /\ response.kind = "results"
             /\ \E j \in DOMAIN response.results :
                    /\ response.results[j].resume_id = resumes[i].resume_id
                    /\ response.results[j].score = <<1, 2>>

----------------------------------------------------------------------------
(* C2: a request that carries a keywords object without any keyword in the *)
(* three scoring categories of either tier is answered with the empty      *)
(* result and its message, never with an error.                            *)

NoScorableKeywords(jd) == Populated(jd, "required") = {} /\ Populated(jd, "preferred") = {}

\* C2: such a request gets the empty result, no error and no scoring.
NoScorableIsEmptyResult ==
    (Matching /\ request.data.top_k.kind # "text" /\ Jd # <<>> /\ NoScorableKeywords(Jd))
    => /\ response.kind = "empty"
       /\ response.results = <<>>
       /\ frame = NoFrame

----------------------------------------------------------------------------
(* C3: every score of an answer lies between 0 and 1.                      *)

ScoresInUnitInterval ==
    Scored => \A i \in DOMAIN response.results : InUnitInterval(response.results[i].score)

----------------------------------------------------------------------------
(* C4: in a tier with scorable keywords the weights used are the table     *)
(* weights of exactly the categories with job keywords, each divided by    *)
(* their sum, so they sum to 1.                                            *)

TierWeightsAre(weights, table, populated) ==
    /\ DOMAIN weights = populated
    /\ LET total == FSum([category \in populated |-> table[category]])
       IN  \A category \in populated : FMul(weights[category], total) = table[category]
    /\ FSum(weights) = FOne

----------------------------------------------------------------------------
(* C5: the tier weights are 4/5 and 1/5 when both tiers have scorable      *)
(* keywords and 1 and 0 when only one has; the score is the required       *)
(* component times the required weight plus the preferred component times  *)
(* the preferred weight.                                                   *)

ExpectedComposition(jd) ==
    IF Populated(jd, "required") # {} /\ Populated(jd, "preferred") # {}
    THEN [required |-> <<4, 5>>, preferred |-> <<1, 5>>]
    ELSE IF Populated(jd, "required") # {}
    THEN [required |-> <<1, 1>>, preferred |-> <<0, 1>>]
    ELSE [required |-> <<0, 1>>, preferred |-> <<1, 1>>]

\* C5: the composition weights and the score of every scored resume.
TierComposition ==
    frame.kind = "match" =>
        /\ frame.final_composition_weights = ExpectedComposition(Jd)
        /\ \A i \in DOMAIN frame.scored :
               LET s == frame.scored[i]
                   w == ExpectedComposition(Jd)
               IN  /\ s.score = FAdd(FMul(s.required_score_component, w.required),
                                     FMul(s.preferred_score_component, w.preferred))
                   /\ \A j \in DOMAIN response.results :
                          response.results[j].resume_id = s.resume_id
                          => response.results[j].score = s.score

TierCompositionWitness ==
    /\ frame.kind = "match"
    /\ Populated(Jd, "required") = {}
    /\ \E i \in DOMAIN frame.scored :
           /\ frame.scored[i].preferred_score_component = <<1, 1>>
           /\ frame.scored[i].score = <<1, 1>>
    /\ \E i \in DOMAIN response.results : response.results[i].score = <<1, 1>>

----------------------------------------------------------------------------
(* C6: the categories outside the three scoring ones do not change any     *)
(* score: the answer to a request has the scores of the answer to the same *)
(* request with those categories removed.                                  *)

NonScoringCategoriesIgnored ==
    Matching =>
        LET other == MatchOutcome(resumes, request.user,
                                  [request.data EXCEPT !.keywords = ScoringPart(Jd)]).response
        IN  /\ other.kind = response.kind
            /\ response.kind = "results" => Scores(other) = Scores(response)

NonScoringCategoriesIgnoredWitness ==
    /\ Scored
    /\ ScoringPart(Jd) # Jd
    /\ \E i \in DOMAIN response.results :
           LET report == response.results[i].report_details
           IN  /\ "domain_knowledge" \in DOMAIN report.additional_keywords
               /\ report.additional_keywords["domain_knowledge"].matched # <<>>
               /\ response.results[i].score # <<1, 1>>
               /\ response.results[i].score # <<0, 1>>

----------------------------------------------------------------------------
(* C7: in every report each job keyword is in exactly one of the matched   *)
(* and missing lists of its category, matched iff its lowercase form is a  *)
(* lowercased keyword of the resume; the category is under                 *)
(* scoring_keywords iff it is a scoring category, else under               *)
(* additional_keywords.                                                    *)

ReportedOnce(entry, category, kw) ==
    LET report == entry.report_details
        scoring == category \in {"hard_skills", "tools_and_platforms",
                                 "methodologies_and_frameworks"}
        here == IF scoring THEN report.scoring_keywords ELSE report.additional_keywords
        there == IF scoring THEN report.additional_keywords ELSE report.scoring_keywords
        found == Lower(kw) \in {Lower(k) : k \in SeqToSet(ResumeOf(entry).combined_keywords)}
    IN  /\ category \in DOMAIN here
        /\ category \notin DOMAIN there
        /\ (kw \in SeqToSet(here[category].matched)) # (kw \in SeqToSet(here[category].missing))
        /\ (kw \in SeqToSet(here[category].matched)) = found

\* C7: every job keyword of the request, in every report of the answer.
ReportCoversEveryKeyword ==
    Scored =>
        \A i \in DOMAIN response.results :
            \A k \in DOMAIN Jd : \A category \in DOMAIN Jd[k] :
                \A n \in DOMAIN Jd[k][category] :
                    ReportedOnce(response.results[i], category, Jd[k][category][n])

ReportCoversEveryKeywordWitness ==
    /\ Scored
    /\ \E i \in DOMAIN response.results :
           LET report == response.results[i].report_details
           IN  /\ "hard_skills" \in DOMAIN report.scoring_keywords
               /\ report.scoring_keywords["hard_skills"].matched = <<"Python">>
               /\ report.scoring_keywords["hard_skills"].missing = <<"SQL">>
               /\ "domain_knowledge" \in DOMAIN report.additional_keywords
               /\ report.additional_keywords["domain_knowledge"].missing = <<"Finance">>

----------------------------------------------------------------------------
(* C8: the results are in non-increasing score order and there are never   *)
(* more of them than min(top_k, 100), whatever top_k the request carries.  *)

RequestedTopK == IF request.data.top_k.kind = "absent" THEN 10 ELSE request.data.top_k.val

\* C8: order and length of the results.
SortedAndTruncated ==
    Scored =>
        /\ \A i, j \in DOMAIN response.results :
               i < j => FLeq(response.results[j].score, response.results[i].score)
        /\ LET limit == IF RequestedTopK < 100 THEN RequestedTopK ELSE 100
           IN  Len(response.results) <= (IF limit < 0 THEN 0 ELSE limit)

----------------------------------------------------------------------------
(* C9: with an explicit list of resume identifiers, every resume scored    *)
(* and returned has its identifier in the list.                            *)

OnlyListed ==
    /\ \A i \in DOMAIN response.results :
           response.results[i].resume_id \in SeqToSet(request.data.resume_ids.val)
    /\ \A i \in DOMAIN frame.scored :
           frame.scored[i].resume_id \in SeqToSet(request.data.resume_ids.val)
    /\ response.total_resumes_scored = Len(frame.scored)

----------------------------------------------------------------------------
(* C10: a file whose keyword augmentation fails (no API key, an exception  *)
(* of the service, an answer without a brace-delimited object, an object   *)
(* that does not parse) is stored with combined_keywords equal to its raw  *)
(* skills and reported as processed; augmentation never adds a file to     *)
(* failed_resumes.                                                         *)

Uploading == request.kind = "upload" /\ request.has_files

NewIds == {response.processed_resumes[i].resume_id : i \in DOMAIN response.processed_resumes}

\* File n of the request reaches the augmentation step: it has a name, it is
\* no duplicate of a resume stored before or earlier in the batch, and its
\* text was extracted.
ReachesAugmentation(n) ==
    LET file == request.files[n]
    IN  /\ file.filename # ""
        /\ file.extract_ok
        /\ ~\E i \in DOMAIN resumes :
               /\ resumes[i].resume_id \notin NewIds
               /\ resumes[i].user_id = request.user
               /\ resumes[i].content_hash = file.content_hash
        /\ ~\E m \in 1..(n - 1) :
               /\ request.files[m].filename # ""
               /\ request.files[m].extract_ok
               /\ request.files[m].content_hash = file.content_hash

AugmentationFails(file) ==
    \/ ~gemini_api_key
    \/ file.gemini.raises
    \/ ReSearchBraces(file.gemini.text) = <<>>
    \/ ~JsonIsObject(ReSearchBraces(file.gemini.text))

StoredWithRawSkills(file) ==
    \E i \in DOMAIN resumes :
        /\ resumes[i].user_id = request.user
        /\ resumes[i].content_hash = file.content_hash
        /\ resumes[i].combined_keywords = file.skills
        /\ \E j \in DOMAIN response.processed_resumes :
               /\ response.processed_resumes[j].resume_id = resumes[i].resume_id
               /\ response.processed_resumes[j].file_name = file.filename
               /\ response.processed_resumes[j].skills_count = Len(file.skills)

\* C10: the files whose augmentation fails are stored with their raw skills
\* and processed; only unreadable files are failed.
AugmentationFallsBack ==
    Uploading =>
        /\ response.status = 200
        /\ \A n \in DOMAIN request.files :
               (ReachesAugmentation(n) /\ AugmentationFails(request.files[n]))
               => StoredWithRawSkills(request.files[n])
        /\ response.total_processed =
               Cardinality({n \in DOMAIN request.files : ReachesAugmentation(n)})
        /\ response.total_failed =
               Cardinality({n \in DOMAIN request.files :
                               /\ request.files[n].filename # ""
                               /\ ~request.files[n].extract_ok
                               /\ \A m \in 1..(n - 1) : ~ReachesAugmentation(m) \/
                                      request.files[m].content_hash #
                                          request.files[n].content_hash
                               /\ ~\E i \in DOMAIN resumes :
                                      /\ resumes[i].resume_id \notin NewIds
                                      /\ resumes[i].user_id = request.user
                                      /\ resumes[i].content_hash =
                                             request.files[n].content_hash})

AugmentationFallsBackWitness ==
    /\ Uploading
    /\ gemini_api_key
    /\ \E n \in DOMAIN request.files :
           LET file == request.files[n]
           IN  /\ ReachesAugmentation(n)
               /\ ~file.gemini.raises
               /\ ReSearchBraces(file.gemini.text) # <<>>
               /\ ~JsonIsObject(ReSearchBraces(file.gemini.text))
               /\ file.skills # <<>>
               /\ StoredWithRawSkills(file)

----------------------------------------------------------------------------
(* C11: augment_keywords does not raise when the chat call raises or its   *)
(* answer holds no object that parses, and then leaves the raw skills of   *)
(* the record as its combined_keywords.                                    *)

Returned(fn) == call.fn = fn /\ call.pc = "returned"

OllamaFails(ollama) ==
    \/ ollama.raises
    \/ ReSearchBraces(ollama.text) = <<>>
    \/ ~JsonIsObject(ReSearchBraces(ollama.text))

\* C11: no exception, and the skills as the fallback.
AugmentKeywordsFallsBack ==
    (Returned("augment_keywords") /\ OllamaFails(call.ollama))
    => /\ ~call.raised
       /\ call.result.combined_keywords = call.parsed_resume.skills

----------------------------------------------------------------------------
(* C12: when the keyword service answers a file of an upload with an       *)
(* object, the combined_keywords stored for the file are the lists under   *)
(* hard_skills, tools_and_platforms, methodologies_and_frameworks,         *)
(* domain_knowledge, qualifications and experience_indicators, joined in   *)
(* this order; a category that is absent, and any other key, adds nothing. *)

\* The list the answer holds under a category: empty when the category is
\* absent or holds no list.
ListUnder(text, category) ==
    LET object == ReSearchBraces(text)
        at == {i \in DOMAIN object : object[i].t = "member" /\ object[i].key = category}
    IN  IF at = {} THEN <<>>
        ELSE LET last == CHOOSE i \in at : \A j \in at : j <= i
             IN  IF object[last].islist THEN object[last].items ELSE <<>>

SixCategoriesInOrder(text) ==
    ListUnder(text, "hard_skills") \o ListUnder(text, "tools_and_platforms") \o
    ListUnder(text, "methodologies_and_frameworks") \o ListUnder(text, "domain_knowledge") \o
    ListUnder(text, "qualifications") \o ListUnder(text, "experience_indicators")

StoredWithKeywords(file, keywords) ==
    \E i \in DOMAIN resumes :
        /\ resumes[i].resume_id \in NewIds
        /\ resumes[i].user_id = request.user
        /\ resumes[i].content_hash = file.content_hash
        /\ resumes[i].combined_keywords = keywords

\* C12: every file answered with an object is stored with the six lists joined.
CategorizedAnswerFlattened ==
    Uploading =>
        \A n \in DOMAIN request.files :
            (ReachesAugmentation(n) /\ ~AugmentationFails(request.files[n]))
            => StoredWithKeywords(request.files[n],
                                  SixCategoriesInOrder(request.files[n].gemini.text))

CategorizedAnswerFlattenedWitness ==
    /\ Uploading
    /\ \E n, m \in DOMAIN request.files :
           /\ ReachesAugmentation(n) /\ ReachesAugmentation(m)
           /\ request.files[n].gemini = WrappedAnswer
           /\ StoredWithKeywords(request.files[n], <<"SQL", "Agile", "Finance">>)
           /\ request.files[m].gemini = OddAnswer
           /\ StoredWithKeywords(request.files[m], <<"Docker">>)

----------------------------------------------------------------------------
(* C13: the text sent to the keyword service for a resume is the record's  *)
(* searchable_ollama_content, that is its summary, experience, projects    *)
(* and skills texts joined by spaces; the certifications text is no part   *)
(* of it.                                                                   *)

\* The summary, experience, projects and skills texts of a file's record.
OllamaContentOf(file) ==
    file.summary \o " " \o "" \o " " \o "" \o " " \o Join(file.skills, " ")

\* C13: every text sent during an upload is the searchable_ollama_content of
\* the file it is sent for and holds none of the file's certifications.
SentOllamaContent ==
    (Uploading /\ frame.kind = "upload") =>
        \A i \in DOMAIN frame.prompts :
            \E n \in DOMAIN request.files :
                LET file == request.files[n]
                IN  /\ ReachesAugmentation(n)
                    /\ file.content_hash = frame.prompts[i].content_hash
                    /\ frame.prompts[i].text = OllamaContentOf(file)
                    /\ \A c \in DOMAIN file.certifications :
                           ~In(file.certifications[c], frame.prompts[i].text)

----------------------------------------------------------------------------
(* C14: in an upload a file that fails at extraction, parsing,             *)
(* augmentation or the store does not end the loop: every file of the      *)
(* request gets its turn, a file that fails is reported in failed_resumes  *)
(* by its filename with an error, and a later file that is sound is still  *)
(* stored and reported as processed.                                       *)

\* The names of the first n files of the request whose turn ended in `outcome`.
RECURSIVE NamesWhere(_, _)
NamesWhere(outcome, n) ==
    IF n = 0 THEN <<>>
    ELSE NamesWhere(outcome, n - 1) \o
         (IF frame.outcomes[n] = outcome THEN <<request.files[n].filename>> ELSE <<>>)

\* File n is sound: it has a name, its text can be extracted, its record can
\* be stored, its content is not stored yet, and no commit before it left the
\* session unusable.
Sound(n) ==
    LET file == request.files[n]
    IN  /\ file.filename # ""
        /\ file.extract_ok
        /\ file.store = "ok"
        /\ \A m \in 1..(n - 1) : request.files[m].store # "raises_inactive"
        /\ ~\E i \in DOMAIN resumes :
               /\ resumes[i].resume_id \notin NewIds
               /\ resumes[i].user_id = request.user
               /\ resumes[i].content_hash = file.content_hash
        /\ ~\E m \in 1..(n - 1) :
               /\ frame.outcomes[m] = "processed"
               /\ request.files[m].content_hash = file.content_hash

FailsItself(file) == ~file.extract_ok \/ file.store # "ok"

----------------------------------------------------------------------------
(* C15: no operation changes or removes a stored resume: matching,         *)
(* listing, details, download and statistics leave the table as it is, and *)
(* an upload only appends rows to it.                                      *)

StoredBefore == \A i \in DOMAIN resumes : i \in DOMAIN resumes' /\ resumes'[i] = resumes[i]

\* C15: every step keeps every stored row, and only an upload adds rows.
StoredResumesKept ==
    [][/\ StoredBefore
       /\ request'.kind \in {"match", "list", "download", "details", "stats"}
              => resumes' = resumes]_vars

\* An upload has added a row to a table that held one, which is still there.
StoredResumesKeptWitness ==
    /\ Uploading
    /\ Len(resumes) = 2
    /\ NewIds = {2}
    /\ resumes[1].resume_id = 1

----------------------------------------------------------------------------
(* find_section_boundaries: which line a section kind is mapped to.        *)

\* The line is looked at (lines 154-155) and passes the test of the kind.
Qualifies(kind, line) ==
    LET line_clean == StrLower(clean_text(line))
    IN  ~TooShortOrSymbolic(line_clean) /\ IsHeaderOf(kind, line_clean, clean_text(line))

\* The indices (from 0) of the lines that qualify as a header of the kind.
HeaderIndices(kind, lines) ==
    {i \in 0..(Len(lines) - 1) : Qualifies(kind, lines[i + 1])}

\* C16: on return every section kind that has a qualifying line is mapped to
\* the index of the first such line, and a kind without one is not mapped.
FirstHeaderWins ==
    Returned("find_section_boundaries") =>
        \A k \in DOMAIN SectionKinds :
            LET kind == SectionKinds[k]
                found == HeaderIndices(kind, call.lines)
            IN  IF found = {} THEN kind \notin DOMAIN call.section_indices
                ELSE /\ kind \in DOMAIN call.section_indices
                     /\ call.section_indices[kind] = Least(found)

----------------------------------------------------------------------------
(* extract_experience: the lines an entry takes its responsibilities from. *)

ExperienceReturned == Returned("extract_experience") /\ "EXPERIENCE" \in DOMAIN call.section_indices

\* The positions in the section of the lines that are job headers.
JobHeaders(exp_lines) == {j \in 1..Len(exp_lines) : _is_job_header(clean_text(exp_lines[j]))}

\* The text of a line of the section without its bullet.
Body(raw) == clean_text(Strip(LStripChars(clean_text(raw), {"~", "-", "*"})))

\* The positions of the lines between the k-th job header and the next one.
Segment(exp_lines, k) ==
    LET headers == JobHeaders(exp_lines)
        header == Nth(headers, k, Len(exp_lines) + 1)
        next == Nth(headers, k + 1, Len(exp_lines) + 1)
    IN  {j \in 1..Len(exp_lines) : header < j /\ j < next}

\* C17: extract_experience returns one entry for each job header of the
\* section, and the responsibilities of an entry are taken from the lines
\* between its header and the next one, at most one from each line: a line
\* before the first header is in no entry.
ResponsibilitiesWithinEntry ==
    ExperienceReturned =>
        /\ Len(call.experiences) = Cardinality(JobHeaders(call.exp_lines))
        /\ \A k \in DOMAIN call.experiences :
              LET listed == call.experiences[k].responsibilities
                  segment == Segment(call.exp_lines, k)
              IN  /\ Len(listed) <= Cardinality(segment)
                  /\ \A r \in DOMAIN listed :
                        \E j \in segment : Body(call.exp_lines[j]) # "" /\ In(Body(call.exp_lines[j]), listed[r])

\* A section with a bullet line before its only job header and one after it
\* has given an entry with one responsibility.
ResponsibilitiesWithinEntryWitness ==
    /\ ExperienceReturned
    /\ JobHeaders(call.exp_lines) = {2}
    /\ Len(call.exp_lines) = 3
    /\ Body(call.exp_lines[1]) = "Led team"
    /\ Len(call.experiences) = 1
    /\ call.experiences[1].responsibilities = <<"Led team">>

----------------------------------------------------------------------------
(* The job header of the specification's example and two bullet lines.     *)

ExampleHeader == "Senior Engineer - Acme Corp, NY - Jan 2019 - Present"

BulletPrefixed(raw) == First(raw) \in {"~", "-", "*"}

\* The text is an experience section that holds the example header and then
\* two lines with a bullet, which end the text.
HeaderThenTwoBullets ==
    /\ Len(call.lines) = 4
    /\ call.section_indices = [EXPERIENCE |-> 0]
    /\ call.lines[2] = ExampleHeader
    /\ BulletPrefixed(call.lines[3])
    /\ BulletPrefixed(call.lines[4])

\* C18: the example header followed by two bullet lines gives exactly one
\* entry with the duration "Jan 2019 - Present", the title "Senior Engineer"
\* or "Acme Corp", and two responsibilities, one for each bullet line.
ExampleGivesOneJob ==
    Returned("extract_experience") /\ HeaderThenTwoBullets =>
        /\ Len(call.experiences) = 1
        /\ call.experiences[1].duration = "Jan 2019 - Present"
        /\ call.experiences[1].title \in {"Senior Engineer", "Acme Corp"}
        /\ call.experiences[1].responsibilities = <<Body(call.lines[3]), Body(call.lines[4])>>

----------------------------------------------------------------------------
(* extract_education: the entries that were opened and those returned.     *)

EducationReturned == Returned("extract_education") /\ "EDUCATION" \in DOMAIN call.section_indices

\* The line at position j of the section has the keyword of an institution;
\* it has the keyword of a degree and none of an institution.
InstitutionLine(edu_lines, j) ==
    /\ Len(clean_text(edu_lines[j])) >= 5
    /\ \E keyword \in institution_keywords : In(keyword, StrLower(clean_text(edu_lines[j])))

DegreeLine(edu_lines, j) ==
    /\ Len(clean_text(edu_lines[j])) >= 5
    /\ ~InstitutionLine(edu_lines, j)
    /\ \E keyword \in degree_keywords : In(keyword, StrLower(clean_text(edu_lines[j])))

\* The positions of the lines that open an entry: every institution line,
\* and a degree line that no institution or degree line precedes.
Openers(edu_lines) ==
    {j \in 1..Len(edu_lines) :
        \/ InstitutionLine(edu_lines, j)
        \/ /\ DegreeLine(edu_lines, j)
           /\ \A k \in 1..(j - 1) : ~InstitutionLine(edu_lines, k) /\ ~DegreeLine(edu_lines, k)}

\* C19: every entry that was opened is in the returned list, one for each
\* line that opened one, an entry opened by a degree line with an empty
\* institution included.
OpenedEntriesReturned ==
    EducationReturned =>
        /\ Len(call.education) = Cardinality(Openers(call.edu_lines))
        /\ \A j \in Openers(call.edu_lines) :
              \E e \in DOMAIN call.education :
                  IF InstitutionLine(call.edu_lines, j)
                  THEN call.education[e].institution = clean_text(call.edu_lines[j])
                  ELSE call.education[e].institution = "" /\ call.education[e].degree = clean_text(call.edu_lines[j])

----------------------------------------------------------------------------
(* The lines an extractor takes as its section.                            *)

\* The extractor has found its header and taken the lines of its section.
SectionTaken(kind, fn) ==
    /\ call.fn = fn
    /\ call.pc \in {"loop", "returned"}
    /\ kind \in DOMAIN call.section_indices

\* The lines after the header of the kind and before the least index of
\* another kind above that header, or the end of the text.
UpToNextHeader(kind) ==
    LET header == call.section_indices[kind]
        above == {call.section_indices[k] : k \in {o \in DOMAIN call.section_indices : o # kind /\ call.section_indices[o] > header}}
    IN  Lines(call.lines, header + 1, IF above = {} THEN Len(call.lines) ELSE Least(above))

\* C20: the lines taken as the experience section and as the education
\* section start after the section's header and end before the next header
\* of another section: no header of another section is among them.
SectionEndsAtNextHeader ==
    /\ SectionTaken("EXPERIENCE", "extract_experience") => call.exp_lines = UpToNextHeader("EXPERIENCE")
    /\ SectionTaken("EDUCATION", "extract_education") => call.edu_lines = UpToNextHeader("EDUCATION")

----------------------------------------------------------------------------
(* extract_skills: the example of the specification, order and repeats.    *)

SkillsReturned == Returned("extract_skills") /\ "SKILLS" \in DOMAIN call.section_indices

\* The positions of the text where a piece between two delimiters, or
\* between a delimiter and an end of the text, is the skill once stripped.
SeenAt(text, skill) ==
    {p \in 1..Len(text) :
        /\ p = 1 \/ At(text, p - 1) \in SkillDelimiters
        /\ \E q \in p..Len(text) :
              /\ q = Len(text) \/ At(text, q + 1) \in SkillDelimiters
              /\ \A h \in p..q : At(text, h) \notin SkillDelimiters
              /\ Strip(Slice(text, p, q)) = skill}

\* C21: extract_skills on the section "Python, SQL | Docker; AWS" returns
\* Python, SQL, Docker, AWS; on every section each skill returned has more
\* than one character and is a piece of the section, no skill is returned
\* twice, and the skills are in the order in which the section first has them.
SkillsInFirstSeenOrder ==
    SkillsReturned =>
        /\ call.skills_text = "Python, SQL | Docker; AWS" => call.skills = <<"Python", "SQL", "Docker", "AWS">>
        /\ \A i \in DOMAIN call.skills :
              /\ Len(call.skills[i]) > 1
              /\ SeenAt(call.skills_text, call.skills[i]) # {}
        /\ \A i, j \in DOMAIN call.skills :
              i < j => /\ call.skills[i] # call.skills[j]
                       /\ Least(SeenAt(call.skills_text, call.skills[i])) < Least(SeenAt(call.skills_text, call.skills[j]))

\* A section of two lines that names Python and SQL twice and has a piece
\* of one letter has given each skill once.
SkillsInFirstSeenOrderWitness ==
    /\ SkillsReturned
    /\ call.skills_text = "Python, SQL | Docker; AWS SQL / Python: C"
    /\ call.skills = <<"Python", "SQL", "Docker", "AWS SQL">>

----------------------------------------------------------------------------
(* calculate_total_experience: the months of the durations as written.     *)

\* The date a text names: the present day, a month and a year in words or
\* with a slash, or a year, which starts in January; <<>> for another text.
Named(text, now) ==
    IF text = "Present" THEN now
    ELSE IF Len(text) = 4 /\ DigitsAt(text, 1, 4) THEN ParseDate(text)
    ELSE IF Len(text) = 7 /\ DigitsAt(text, 1, 2) /\ At(text, 3) = "/" /\ DigitsAt(text, 4, 4) THEN ParseDate(text)
    ELSE IF Len(text) >= 8 /\ At(text, Len(text) - 4) = " " /\ DigitsAt(text, Len(text) - 3, 4) THEN ParseDate(text)
    ELSE <<>>

\* The positions of the dashes that have a date on each side.
DatedDashes(duration, now) ==
    {d \in 1..Len(duration) :
        /\ At(duration, d) \in Dashes
        /\ Named(Strip(Slice(duration, 1, d - 1)), now) # <<>>
        /\ Named(Strip(From(duration, d + 1)), now) # <<>>}

\* The whole months from the start to the end a duration names, 0 when the
\* end is before the start or the duration is not two dates around a dash.
WrittenSpan(duration, now) ==
    IF DatedDashes(duration, now) = {} THEN 0
    ELSE MonthsBetween(Named(Strip(Slice(duration, 1, Least(DatedDashes(duration, now)) - 1)), now),
                       Named(Strip(From(duration, Least(DatedDashes(duration, now)) + 1)), now))

\* The sum of the spans of the first n entries.
RECURSIVE WrittenTotal(_, _, _)
WrittenTotal(experiences, n, now) ==
    IF n = 0 THEN 0
    ELSE WrittenTotal(experiences, n - 1, now) + WrittenSpan(DurationOf(experiences[n]), now)

TotalReturned == Returned("calculate_total_experience")

\* C22: calculate_total_experience returns "N years, M months" where
\* 12 * N + M is the sum over the entries of the whole months between the
\* start and the end of each duration, 0 for an end before the start and for
\* a duration that names no two dates; without entries it returns
\* "0 years, 0 months".
TotalIsSumOfSpans ==
    TotalReturned =>
        /\ \E N \in 0..(3 * MaxJobs), M \in 0..11 :
              /\ call.result = ToString(N) \o " years, " \o ToString(M) \o " months"
              /\ 12 * N + M = WrittenTotal(call.experiences, Len(call.experiences), call.now)
        /\ call.experiences = <<>> => call.result = "0 years, 0 months"

----------------------------------------------------------------------------
(* clean_text applied twice.                                               *)

\* C23: clean_text applied to what clean_text returned returns it unchanged.
CleanTextIdempotent == Returned("clean_text") => call.twice = call.once

\* A text with a bullet, a run of spaces and a character outside ASCII,
\* which clean_text changed, was cleaned twice.
CleanTextIdempotentWitness ==
    /\ Returned("clean_text")
    /\ call.text = "~ a$"
    /\ call.once = "a"
    /\ call.twice = "a"

----------------------------------------------------------------------------
(* parse_resume: the record of a text without sections.                    *)

\* The keys of a Resume Record (lines 898-925).
RecordKeys ==
    {"file_name", "name", "phone", "email", "linkedin", "location", "github", "website", "summary",
     "total_experience_years", "current_title", "experiences", "education", "certifications", "skills",
     "projects", "all_skills_text", "all_experience_text", "all_project_text", "all_education_text",
     "all_certifications_text", "searchable_content", "searchable_ollama_content", "parsing_metadata"}

\* No line of the text qualifies as the header of a section.
NoSectionIn(resume_text) == \A k \in DOMAIN SectionKinds : HeaderIndices(SectionKinds[k], TextLines(resume_text)) = {}

\* C24: parse_resume returns a record with every key of a Resume Record,
\* whatever the text; for a text without a section header, the empty text
\* among them, the experiences, education, projects and skills are empty,
\* the current title is empty and the total is "0 years, 0 months".
ParseAlwaysReturnsRecord ==
    Returned("parse_resume") =>
        /\ DOMAIN call.result = RecordKeys
        /\ NoSectionIn(call.resume_text) =>
              /\ call.result.experiences = <<>>
              /\ call.result.education = <<>>
              /\ call.result.projects = <<>>
              /\ call.result.skills = <<>>
              /\ call.result.current_title = ""
              /\ call.result.total_experience_years = "0 years, 0 months"

\* The header of a job and a bullet line, under no section header, are in
\* the summary of a record without experiences.
ParseAlwaysReturnsRecordWitness ==
    /\ Returned("parse_resume")
    /\ call.resume_text = "Senior Engineer - Acme Corp, NY - Jan 2019 - Present\n~ Built APIs"
    /\ NoSectionIn(call.resume_text)
    /\ DOMAIN call.result = RecordKeys
    /\ call.result.experiences = <<>>
    /\ call.result.summary = "Senior Engineer - Acme Corp, NY - Jan 2019 - Present Built APIs"

----------------------------------------------------------------------------
(* extract_experience: one entry for each job header, in their order.      *)

\* The positions among the first n lines of the section of the job headers.
HeadersUpTo(exp_lines, n) == {j \in JobHeaders(exp_lines) : j <= n}

\* The entry has the names and the dates read from a header line.
EntryOfHeader(entry, header) ==
    /\ entry.company = header.company
    /\ entry.title = header.title
    /\ entry.location = header.location
    /\ entry.duration = header.duration

\* The entries are those of the headers at the positions of the set, in order.
EntriesOfHeaders(entries, exp_lines, headers) ==
    /\ Len(entries) = Cardinality(headers)
    /\ \A k \in DOMAIN entries : EntryOfHeader(entries[k], _parse_job_header(clean_text(exp_lines[Nth(headers, k, 0)])))

\* C25: after each line of the section, the entries appended so far and
\* the open one are those of the job headers read so far, one for each
\* header and in their order, and an entry is open exactly when a header was
\* read; on return the list has one entry for each header of the section.
OneEntryPerJobHeader ==
    /\ (call.fn = "extract_experience" /\ call.pc = "loop") =>
          /\ EntriesOfHeaders(call.experiences \o call.current_job, call.exp_lines, HeadersUpTo(call.exp_lines, call.i))
          /\ (call.current_job # <<>>) = (HeadersUpTo(call.exp_lines, call.i) # {})
    /\ ExperienceReturned => EntriesOfHeaders(call.experiences, call.exp_lines, JobHeaders(call.exp_lines))

\* A section with the headers of two jobs and a line of prose between them
\* has given the two entries in the order of the headers.
OneEntryPerJobHeaderWitness ==
    /\ ExperienceReturned
    /\ call.exp_lines = <<"Developer at Initech, Austin 2016 - 2018", "worked on the billing service", "Senior Engineer - Acme Corp, NY - Jan 2019 - Present">>
    /\ Len(call.experiences) = 2
    /\ call.experiences[1].company = "Initech"
    /\ call.experiences[1].responsibilities = <<"worked on the billing service">>
    /\ call.experiences[2].duration = "Jan 2019 - Present"

----------------------------------------------------------------------------
(* extract_experience: a line that goes on in lowercase.                   *)

\* The loop of extract_experience is about to read a line that is no job
\* header, starts with a lowercase letter and with no bullet, while the open
\* entry has a responsibility.
ContinuationNext ==
    /\ call.fn = "extract_experience" /\ call.pc = "loop" /\ call.i < Len(call.exp_lines)
    /\ clean_text(call.exp_lines[call.i + 1]) # ""
    /\ ~_is_job_header(clean_text(call.exp_lines[call.i + 1]))
    /\ First(clean_text(call.exp_lines[call.i + 1])) \in LowerLetters
    /\ call.current_job # <<>>
    /\ call.current_job[1].responsibilities # <<>>

\* C26: the turn of the loop on such a line adds no responsibility and puts
\* the line after the last responsibility of the open entry.
ContinuationMerged ==
    [][ContinuationNext =>
          /\ Len(call'.current_job[1].responsibilities) = Len(call.current_job[1].responsibilities)
          /\ call'.current_job[1].responsibilities[Len(call.current_job[1].responsibilities)] =
                call.current_job[1].responsibilities[Len(call.current_job[1].responsibilities)] \o " " \o clean_text(call.exp_lines[call.i + 1])]_vars

----------------------------------------------------------------------------
(* extract_education: the years of the open entry.                         *)

\* The loop of extract_education is about to read a line with a year while
\* the open entry has no years.
YearLineNext ==
    /\ call.fn = "extract_education" /\ call.pc = "loop" /\ call.i < Len(call.edu_lines)
    /\ Years(clean_text(call.edu_lines[call.i + 1])) # ""
    /\ call.current_edu # <<>>
    /\ call.current_edu[1].years = ""

\* C28: after the turn of the loop on such a line the entry that was open,
\* whether it is still open or was appended to the list, has the year or
\* the range of years of the line as its years.
YearsOfAnyLineRecorded ==
    [][YearLineNext =>
          IF Len(call'.education) > Len(call.education)
          THEN call'.education[Len(call'.education)].years = Years(clean_text(call.edu_lines[call.i + 1]))
          ELSE call'.current_edu[1].years = Years(clean_text(call.edu_lines[call.i + 1]))]_vars

----------------------------------------------------------------------------
(* C29.  At all times the Resume table holds at most one row per user and  *)
(* content hash: uploading the same content again as the same user, in the *)
(* same batch, in a later request or in a request answered at the same     *)
(* time by another worker, never stores a second row.                      *)

OneResumePerUserAndHash ==
    \A i, j \in DOMAIN resumes :
        resumes[i].user_id = resumes[j].user_id /\ resumes[i].content_hash = resumes[j].content_hash
            => i = j

\* Worker w has just been refused the commit of a row that another worker
\* stored after w's query had found none.
RefusedAtCommit(w) ==
    /\ frame[w].kind = "upload"
    /\ frame[w].failed # <<>>
    /\ frame[w].failed[Len(frame[w].failed)].error = "Processing failed: IntegrityError"

\* Witness: two workers uploaded the same content for the same user at once;
\* one row is stored and the other worker's commit was refused.
OneResumePerUserAndHashWitness ==
    /\ Len(resumes) = 1
    /\ \E w \in Workers : RefusedAtCommit(w) /\ request[w].user = resumes[1].user_id
                          /\ frame[w].failed[1].filename = resumes[1].file_name

----------------------------------------------------------------------------
(* C30.  match_resumes, get_resume_details and download_resume never       *)
(* return data of a resume owned by a user other than the caller, even     *)
(* when the request names the identifier of that resume.                   *)

\* The resume with this identifier is owned by the user of the request.
OwnedByCaller(resume_id) == resumes[resume_id].user_id = request.user

\* The request names a stored resume of another user.
NamesForeignResume(ids) == \E i \in DOMAIN resumes : resumes[i].resume_id \in ids /\ ~OwnedByCaller(i)

\* C30: every resume scored, listed in the results, sent as a file or
\* returned in detail is a resume of the caller.
OnlyOwnResumesReturned ==
    /\ (request.kind = "match" /\ response.kind = "results") =>
           /\ \A i \in DOMAIN response.results : OwnedByCaller(response.results[i].resume_id)
           /\ \A i \in DOMAIN frame.scored : OwnedByCaller(frame.scored[i].resume_id)
    /\ (request.kind = "download" /\ response.kind = "file") => OwnedByCaller(response.resume_id)
    /\ (request.kind = "details" /\ response.kind = "details") =>
           response.resume.user_id = request.user

\* Witness: a match request lists a resume of the caller and one of another
\* user; the results hold the caller's resume alone.
OnlyOwnResumesReturnedWitness ==
    /\ request.kind = "match"
    /\ response.kind = "results"
    /\ request.data.resume_ids.kind = "list"
    /\ NamesForeignResume(SeqToSet(request.data.resume_ids.val))
    /\ Len(response.results) = 1
    /\ response.results[1].resume_id \in SeqToSet(request.data.resume_ids.val)

----------------------------------------------------------------------------
(* C27.  When no SUMMARY header is detected, the summary returned by       *)
(* extract_summary has no line at or after the smallest section boundary   *)
(* that is greater than the line the summary starts at.                    *)

\* The section boundaries after the start of the summary.
BoundariesAfterStart ==
    {call.section_indices[k] : k \in DOMAIN call.section_indices} \cap
    {b \in 0..Len(call.lines) : b > call.summary_start}

\* C27 as claimed: every line of the summary lies before each boundary that
\* follows the start, and the summary is made of these lines alone.
SummaryEndsAtNextSection ==
    (Returned("extract_summary") /\ "SUMMARY" \notin DOMAIN call.section_indices) =>
        /\ \A i \in call.taken : \A b \in BoundariesAfterStart : i < b
        /\ call.summary = Join(Select([j \in DOMAIN call.lines |-> clean_text(call.lines[j])],
                                      {i + 1 : i \in call.taken}), " ")

====
